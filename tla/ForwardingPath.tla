--------------------------- MODULE ForwardingPath ---------------------------
(***************************************************************************)
(* uadl/ForwardingPath.h: a path that carries results to instructions that *)
(* read them before they are in the register, for one cycle.  A path is    *)
(* the sequence of what was written to it in the cycle, in order; an entry *)
(* has the writer's tag, the mask of what it wrote and the data.           *)
(***************************************************************************)
EXTENDS RegResource

Entry(tag, mask, data) == [tag |-> tag, mask |-> mask, data |-> data]

(* write(): the assertion on the size of the path is left to the callers. *)
write(path, tag, mask, data) == Append(path, Entry(tag, mask, data))

(* find(): the most recent entry, 0 if there is none. *)
find(path) == Len(path)

\* Mutant of can_read: whoever wrote last will do.
can_read_AnyTag(path, last) == find(path) # 0 /\ path[find(path)].mask = Fields

(* can_read(): the most recent entry must hold the whole register and come  *)
(* from the last instruction that allocated it.                              *)
can_read(path, last) ==
    /\ find(path) # 0
    /\ path[find(path)].mask = Fields
    /\ path[find(path)].tag = last

read(path) == path[find(path)].data

(* can_read_partial(): everything on the path, with the most recent tag. *)
PathMask(path) == UNION {path[i].mask : i \in DOMAIN path}

PathTag(path) == path[find(path)].tag

(* read_partial(): the entries are laid over the value from the most recent *)
(* to the oldest, so that the oldest one that has a field decides it.        *)
read_partial(path, value) ==
    [f \in DOMAIN value |->
       LET has == {i \in DOMAIN path : f \in path[i].mask}
       IN  IF has = {} THEN value[f]
           ELSE path[CHOOSE i \in has : \A j \in has : i <= j].data[f]]
=============================================================================
