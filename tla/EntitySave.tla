----------------------------- MODULE EntitySave -----------------------------
(***************************************************************************)
(* How TypeORM's Repository.save writes an entity that was loaded earlier, *)
(* as the services in backend/src use it: it SELECTs the row once more and  *)
(* then UPDATEs the columns in which the entity differs from that answer.  *)
(* A column the entity still has an old value of is overwritten with it; a  *)
(* column that changed only between the SELECT and the UPDATE is kept.     *)
(***************************************************************************)

\* current: the row when the UPDATE runs.  seen: what the SELECT returned.
Saved(current, seen, entity) ==
    [c \in DOMAIN entity |-> IF entity[c] = seen[c] THEN current[c]
                                                    ELSE entity[c]]
=============================================================================
