------------------------------- MODULE Broker -------------------------------
(***************************************************************************)
(* The HTTP calls every login shares (internal/auth/broker.go) and the     *)
(* errors they turn into (internal/auth/errors.go, credentials.go:484-505, *)
(* errors.go:184-212).                                                     *)
(*                                                                         *)
(* An answer is a status and what the fields the caller reads hold; the    *)
(* status NoAnswer stands for a call that failed before its body was read. *)
(* A login step yields a token, or a RequestError.                         *)
(***************************************************************************)
EXTENDS Naturals

NoAnswer == 0
Statuses == {NoAnswer, 200, 203, 302, 401, 403, 404, 500}
Ok(status) == status \in 200 .. 299

(* A body is "good" when it holds what the step asks for, "short" when the *)
(* field is absent or the body unreadable, "refused" when the              *)
(* LoginResponse has another Status than Success.                          *)
Answers(bodies) == {[status |-> NoAnswer, body |-> "short"]}
                   \cup [status : Statuses \ {NoAnswer}, body : bodies]

(* An error: the RequestError with its StatusCode and cause, or a bare one *)
(* (status and cause in the same place, request FALSE).                    *)
Causes == {"none", "transport", "missing token", "not successful", "no factor given",
           "factor rejected", "factor callback", "denied", "expired", "canceled",
           "no code", "listener", "opener", "prompt"}
RequestError(status, cause) == [request |-> TRUE, status |-> status, cause |-> cause]
PlainError(cause) == [request |-> FALSE, status |-> 0, cause |-> cause]
NoError == PlainError("none")
Errors == [request : BOOLEAN, status : Statuses, cause : Causes]

(* A POST that must answer 2xx and hold the field that is read next.       *)
PostError(a) ==
  IF a.status = NoAnswer THEN RequestError(0, "transport")
  ELSE IF ~Ok(a.status) THEN RequestError(a.status, "none")
  ELSE NoError

postRSTSGrant(a) ==
  IF PostError(a) # NoError THEN PostError(a)
  ELSE IF a.body = "short" THEN RequestError(a.status, "missing token")
  ELSE NoError

exchangeRSTSToken(a) ==
  IF a.body = "refused" /\ Ok(a.status) THEN RequestError(a.status, "not successful")
  ELSE postRSTSGrant(a)

(***************************************************************************)
(* The public error of a failed login.                                     *)
(***************************************************************************)
newAPIError(status) ==
  CASE status = 401 -> "AuthenticationError"
    [] status = 403 -> "AuthorizationError"
    [] status = 404 -> "NotFoundError"
    [] OTHER -> "APIError"

Sentinels == {"no factor given", "factor rejected", "denied", "expired"}

(* "internal" is an *auth.RequestError, a type no caller can name; "plain" *)
(* an error that never was one, such as the context's.                     *)
translateAuthError(e) ==
  IF e.cause \in Sentinels THEN "sentinel"
  ELSE IF ~e.request THEN "plain"
  ELSE IF e.status >= 400 THEN newAPIError(e.status)
  ELSE IF e.status = 0 /\ e.cause # "none" THEN "TransportError"
  ELSE "internal"

APIErrors == {"APIError", "AuthenticationError", "AuthorizationError", "NotFoundError"}
PublicErrors == APIErrors \cup {"sentinel", "TransportError", "internal", "plain"}
=============================================================================
