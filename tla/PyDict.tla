------------------------------- MODULE PyDict -------------------------------
(***************************************************************************)
(* The Python dict and defaultdict(set) idioms the backend uses, on TLA+  *)
(* functions whose domain is the dict's key set.                          *)
(***************************************************************************)
EXTENDS TLC

\* {} : a dict with no keys.
EmptyMap == [x \in {} |-> {}]

\* del d[k]  /  d.pop(k, None)
Del(f, k) == [x \in DOMAIN f \ {k} |-> f[x]]

\* d.get(k, set()): the value of a set-valued dict, empty when absent.
SetAt(f, k) == IF k \in DOMAIN f THEN f[k] ELSE {}

\* `if k not in d: d[k] = set()` (or a defaultdict) followed by d[k].add(x).
AddMember(f, k, x) == (k :> (SetAt(f, k) \cup {x})) @@ f

\* d[k].discard(x) followed by `if not d[k]: del d[k]`, for a present k.
DiscardMember(f, k, x) ==
  LET rest == f[k] \ {x}
  IN  IF rest = {} THEN Del(f, k) ELSE (k :> rest) @@ f
=============================================================================
