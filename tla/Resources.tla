----------------------------- MODULE Resources ------------------------------
(***************************************************************************)
(* The resources that the discoverers list.  An identifier is a path; the  *)
(* identifiers that Azure returns contain upper-case letters (a segment    *)
(* resourceGroups, for instance) as soon as they reach into a resource     *)
(* group, which raw records.  The identifiers of the other providers are   *)
(* taken as they are.                                                      *)
(***************************************************************************)
EXTENDS Sequences, Naturals, FiniteSets

Id(path) == [path |-> path, raw |-> FALSE]
RawId(path) == [path |-> path, raw |-> Len(path) >= 2]

NoFields == [f \in {} |-> {}]
Parent(id) == [f \in {"parent_id"} |-> id]

(***************************************************************************)
(* val gives the fields with the suffix _id, lists those with the suffix   *)
(* _ids; backup is the set of storages that the backups name, and features *)
(* the enabled security features by class.                                 *)
(***************************************************************************)
Res(kind, id, val, lists, features, backup) ==
  [kind |-> kind, id |-> id, val |-> val, lists |-> lists, features |-> features,
   backup |-> backup]

Plain(kind, id, val) == Res(kind, id, val, NoFields, {}, {})

ElementsOf(s) == {s[i] : i \in DOMAIN s}
=============================================================================
