----------------------------- MODULE MCPipeline -----------------------------
(***************************************************************************)
(* Three requests of two clients to four routes, of which the parametric   *)
(* one shadows a literal one added after it.                               *)
(***************************************************************************)
EXTENDS Pipeline, TLC

CONSTANTS r1, r2, r3, c1, c2

Route(pattern, handler) == [method |-> "GET", pattern |-> pattern, handler |-> handler]

RouteList == << Route(<<"health">>, "open"), Route(<<"me">>, "me"),
                Route(<<"users", Param>>, "guarded"), Route(<<"users", "all">>, "open") >>

NoToken == [signed |-> FALSE]
Token(exp, role) == [signed |-> TRUE, exp |-> exp, role |-> role]

Get(path, token, key) ==
    [method |-> "GET", path |-> path, token |-> token, key |-> key, large |-> FALSE]

Mix ==
    { Get(<<"health">>, NoToken, c1), Get(<<"nowhere">>, NoToken, c1),
      Get(<<"me">>, Token(9, "user"), c2), Get(<<"users", "all">>, Token(0, "admin"), c1),
      [Get(<<"users", "7">>, Token(9, "guest"), c1) EXCEPT !.large = TRUE],
      Get(<<"users", "7">>, Token(9, "user"), c1),
      [Get(<<"health">>, NoToken, c1) EXCEPT !.method = "OPTIONS"] }

Orders == { <<"cors", "auth", "rate">>, <<"rate", "pass", "size">>, <<"size", "auth">> }

RequestSymmetry == Permutations(Requests)
=============================================================================
