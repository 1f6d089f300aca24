----------------------------- MODULE MCFrontend -----------------------------
(* Frontend for TLC: small configuration files. *)
EXTENDS Frontend

Header(name) == [marks |-> {"["}, name |-> name, key |-> "", value |-> ""]
Pair(key, value) == [marks |-> {"="}, name |-> "mangled", key |-> key, value |-> value]

Lines == {Header("self"), Header("other"), Pair("tuner_type", "DVB-T"), Pair("tuner_type", "ATSC"),
          [Pair("tuner_type", "DVB-C") EXCEPT !.marks = {"#", "="}]}

\* A header followed by any two of these lines, and what may be before a header.
SmallFiles ==
  {<<>>, <<Pair("tuner_type", "DVB-T")>>} \cup
  {<<Header(name), a, b>> : name \in {"self", "other"}, a \in Lines, b \in Lines}

\* Two sections, the second of which may be the first one again.
TwoSections ==
  {<<Header(n), Pair("tuner_type", "DVB-T"), Header(m), Pair("tuner_type", "ATSC")>> :
     n \in {"self", "other"}, m \in {"self", "other"}}

\* Files with the other keys, an unknown type and a value with a bracket in it.
OtherFiles ==
  {<<Header("self"), Pair("disable", "true")>>,
   <<Header("self"), Pair("use_full_name", "true"), Pair("tuner_type", "DVB-X")>>,
   <<Header("self"), [Pair("tuner_type", "DVB-T[8]") EXCEPT !.marks = {"[", "="}], Pair("tuner_type", "DVB-T")>>}

AllFiles == SmallFiles \cup TwoSections \cup OtherFiles

=============================================================================
