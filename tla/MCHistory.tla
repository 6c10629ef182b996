----------------------------- MODULE MCHistory -----------------------------
(* Two tables of one name, one of them spelled with and without its schema, *)
(* and two routines of one name, in a history of one theme.                 *)
EXTENDS History

CONSTANTS uuid, text, uid

items  == [schema |-> "", name |-> "items"]
public == [schema |-> "public", name |-> "items"]
audit  == [schema |-> "audit", name |-> "items"]

MCQName == {items, public, audit}
gift       == [schema |-> "", name |-> "gift"]
publicGift == [schema |-> "public", name |-> "gift"]
authGift   == [schema |-> "auth", name |-> "gift"]

MCRoutineName == {gift, publicGift, authGift}
MCBody  == {[path |-> "audit", writes |-> <<items>>, auth |-> FALSE],
            [path |-> "public", writes |-> <<public, audit, public>>, auth |-> TRUE]}
MCMixedBody == MCBody \cup
           {[path |-> "audit", writes |-> <<public, items>>, auth |-> FALSE]}
MCManagedSchema == {"auth", "storage"}

plainText == [type |-> text, default |-> NoDefault]

policies ==
  [kinds |-> {"table", "drop table", "rename table", "policy", "body"},
   names |-> MCQName, columns |-> {"id"}, typed |-> {plainText},
   routines |-> {}, length |-> 6]
flags_ ==
  [policies EXCEPT !.kinds = {"table", "drop table", "rename table", "flags", "other"}]
columns_ ==
  [kinds |-> {"table", "column", "rename column"},
   names |-> {items, public}, columns |-> {"id", "owner"},
   typed |-> [type : Type, default : Default], routines |-> {}, length |-> 5]
muddled_ ==
  [columns_ EXCEPT !.kinds = @ \cup {"bare column", "if not exists"}, !.length = 4]
routines_ ==
  [kinds |-> {"table", "flags", "routine"},
   names |-> {items, audit}, columns |-> {"id"}, typed |-> {plainText},
   routines |-> {gift, publicGift}, length |-> 6]
forcing ==
  [routines_ EXCEPT !.kinds = @ \cup {"policy", "body"}, !.names = {items},
                    !.routines = {gift}, !.length = 5]
managed ==
  [routines_ EXCEPT !.names = {items}, !.routines = {gift, authGift}, !.length = 4]

MCThemes        == {policies, flags_, columns_, muddled_, routines_, forcing, managed}
MCRoutineThemes == {routines_}

=============================================================================
