-------------------------- MODULE MCEntitlementRank --------------------------
(* Two keys; arrays of up to two items, wildcards among them, strings,       *)
(* numbers and a value of another type.                                      *)
EXTENDS EntitlementRank

Value(type, of) == [type |-> type, of |-> of]

Plain == {"a", "b"}
SomeValues ==
  {Value("array", s) : s \in {<<>>} \cup {<<x>> : x \in Plain \cup {Star} \cup TeamStars}
                               \cup {<<x, y>> : x \in Plain \cup {Star}, y \in Plain}}
    \cup {Value("string", <<x>>) : x \in Plain \cup {Star}}
    \cup {Value("number", <<"YES">>), Value("number", <<"NO">>), Value("other", <<>>)}
=============================================================================
