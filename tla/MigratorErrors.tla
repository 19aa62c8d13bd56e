--------------------------- MODULE MigratorErrors ---------------------------
(***************************************************************************)
(* How the core migrator classifies an error of the API server             *)
(* (pkg/migrator/errors.go).  An error is one of the classes the code      *)
(* tells apart; its text is abstracted away.                               *)
(***************************************************************************)

\* The errors interpret() names, in the order of its switch.
Retriable == {"Conflict", "ServerTimeout", "TooManyRequests", "ProbableEOF",
              "ConnectionReset", "NoRoutes", "ConnectionRefused"}

\* "Permanent" is an error that itself implements Temporary() and returns
\* false (such as *url.Error around a TLS failure); "Plain" is every other
\* error: Invalid, Forbidden, InternalError, Timeout, a webhook's refusal...
\* "ResourceExpired" is the 410 of a list whose continue token is too old.
Error == Retriable \cup
         {"NotFound", "MethodNotSupported", "ResourceExpired", "Permanent", "Plain"}

\* The dynamic type of the value interpret(err) returns.
interpret(err) ==
  CASE err = "NotFound"           -> "nil"
    [] err = "MethodNotSupported" -> "ErrNotRetriable"
    [] err \in Retriable          -> "ErrRetriable"
    [] OTHER                      -> err

\* interpret(err) implements TemporaryError and is not temporary.
canRetry(err) == interpret(err) \notin {"ErrNotRetriable", "Permanent"}
=============================================================================
