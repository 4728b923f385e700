---------------------------- MODULE RegResource ----------------------------
(***************************************************************************)
(* uadl/RegResource.h: the scoreboard of one register.  An instruction     *)
(* allocates the whole register, or the part of it that a mask names,      *)
(* between reading its sources and writing its target; nobody else may     *)
(* read what is allocated, except from a forwarding path.  A mask is a set *)
(* of fields of the register.                                              *)
(***************************************************************************)
EXTENDS Integers, Sequences, FiniteSetsExt

CONSTANT Fields     \* the parts of the register a partial operand may name

NoTag == 0          \* _last_allocator before the first allocation

(* struct RegAlloc after reset(). *)
EmptyAlloc == [full |-> 0, mask |-> {}, parts |-> <<>>, last |-> NoTag]

can_alloc(ra, id) == ra.mask = {} /\ (ra.full = 0 \/ ra.last = id)

can_alloc_partial(ra, mask) ==
    mask = {} \/ (ra.full = 0 /\ mask \cap ra.mask = {})

allocate(ra, id) == [ra EXCEPT !.full = @ + 1, !.last = id]

allocate_partial(ra, id, mask) ==
    [ra EXCEPT !.parts = Append(@, [tag |-> id, mask |-> mask]),
               !.mask = @ \cup mask, !.last = id]

deallocate(ra) == [ra EXCEPT !.full = IF @ > 0 THEN @ - 1 ELSE 0]

erase(parts, i) == SubSeq(parts, 1, i - 1) \o SubSeq(parts, i + 1, Len(parts))

(* The first allocation with this very mask leaves; what is still allocated *)
(* is computed afresh from the others.                                       *)
deallocate_partial(ra, mask) ==
    LET same == {i \in DOMAIN ra.parts : ra.parts[i].mask = mask}
        left == IF same = {} THEN ra.parts ELSE erase(ra.parts, Min(same))
    IN  [ra EXCEPT !.parts = left,
                   !.mask = UNION {left[i].mask : i \in DOMAIN left}]

(* What is left of a mask that the instruction with this tag wrote to a      *)
(* forwarding path, once later allocations by others are taken away.         *)
rm_later_partial_alloc(ra, mask, tag) ==
    IF ra.full > 0 THEN IF tag = ra.last THEN mask ELSE {}
    ELSE mask \ UNION {ra.parts[i].mask : i \in
           {j \in DOMAIN ra.parts : \A h \in j .. Len(ra.parts) : ra.parts[h].tag # tag}}
=============================================================================
