----------------------------- MODULE MCRewriter -----------------------------
(***************************************************************************)
(* Names of one or two characters: u, r, e, c and s spell the accessors    *)
(* user_id, role, email, claims and is_service, "ub" the claim sub.        *)
(***************************************************************************)
EXTENDS Rewriter, TLC

MCLetter == {"u", "r", "e", "c", "s", "o", "b"}
MCDigit  == {"1"}
MCToLower == [c \in MCLetter \cup MCDigit \cup {"_", "-", "O"} |->
                IF c = "O" THEN "o" ELSE c]
MCSpelled == "user_id" :> <<"u">> @@ "role" :> <<"r">> @@ "email" :> <<"e">>
               @@ "claims" :> <<"c">> @@ "is_service" :> <<"s">>
               @@ "sub" :> <<"u", "b">>

\* sub, role, email; o, O and -o collide; _r and s- are reserved; 1 and oooo
\* are no names; o1 stands alone.
MCClaim == {<<"u", "b">>, <<"r">>, <<"e">>, <<"o">>, <<"O">>, <<"-", "o">>,
            <<"_", "r">>, <<"s", "-">>, <<"c">>, <<"1">>, <<"o", "o", "o", "o">>,
            <<"o", "1">>}

call(m)  == [member |-> m, claim |-> Whole]
claim(k) == [member |-> "jwt", claim |-> k]
AnyRef == {call(m) : m \in {"uid", "role", "email", "jwt", "foreign"}}
            \cup {claim(k) : k \in MCClaim}

items(kind, rs) == [kind |-> kind, refs |-> rs]
Short == {<<a>> : a \in AnyRef}
           \cup {<<claim(<<"o">>), a>> : a \in AnyRef}
           \cup {<<call("foreign"), a>> : a \in {claim(<<"O">>), call("email")}}

MCInputs ==
  {[items |-> <<items("policy", r), items(k, s)>>, toRoles |-> {}] :
     k \in {"policy", "default"}, r \in Short, s \in Short}
  \cup {[items |-> <<items("file", r), items("file", s)>>, toRoles |-> roles] :
     r \in Short, s \in Short, roles \in {{}, {"anon", "service_role"}}}

MCOptions == {o \in Options : o.noServiceEscape => o.roleModel = "single"}

=============================================================================
