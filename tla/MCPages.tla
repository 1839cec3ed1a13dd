------------------------------ MODULE MCPages ------------------------------
(***************************************************************************)
(* An instance of Pages for TLC.  "I" stands for the Turkish capital I     *)
(* with a dot, whose lower case is an i and a dot of its own.              *)
(***************************************************************************)
EXTENDS Pages

Letters == {"a", "A", "b", "I", "i", "dot", " "}

LowerCase ==
  [l \in Letters |-> CASE l = "A" -> <<"a">> [] l = "I" -> <<"i", "dot">> [] OTHER -> <<l>>]

Queries == {<<>>, <<" ">>, <<"A">>, <<"a", "b">>, <<"A", "b">>, <<"I">>}

TwoChannels == <<"events_core", "global">>

ThreeRows == {[key |-> <<"b", "a", "A", "b">>, type |-> "string"],
              [key |-> <<"A", "a">>, type |-> "list"],
              [key |-> <<"I", "a", "b">>, type |-> "string"]}

=============================================================================
