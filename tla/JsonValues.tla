----------------------------- MODULE JsonValues -----------------------------
(***************************************************************************)
(* JSON values as serde_json holds them, [is, fields]: `is' tells objects, *)
(* null, other values and what is no JSON at all ("invalid") apart, and    *)
(* `fields' is a function from the keys of an object to their values, and  *)
(* empty for everything else.                                              *)
(***************************************************************************)
EXTENDS Sequences

IsJson(v) ==
    /\ DOMAIN v = {"is", "fields"} /\ v.is \in {"object", "null", "other", "invalid"}
    /\ v.is # "object" => v.fields = << >>
IsArray(s) == s \in Seq({s[k] : k \in DOMAIN s})

Obj(fields) == [is |-> "object", fields |-> fields]
Has(v, k)   == k \in DOMAIN v.fields
Given(k, f) == k \in DOMAIN f

\* The fields of an object after some are inserted, over what they held.
Over(new, old) ==
    [k \in DOMAIN new \cup DOMAIN old |-> IF k \in DOMAIN new THEN new[k] ELSE old[k]]

=============================================================================
