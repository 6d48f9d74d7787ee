------------------------------ MODULE HssAnswers ------------------------------
(***************************************************************************)
(* What an HssConnection makes of the answer to a request: the create_-    *)
(* answer functions of DiameterHssConnection (a Diameter HSS) and          *)
(* HsProvHssConnection (Homestead-Prov's Cassandra database).              *)
(***************************************************************************)

ResultCodes ==
  {"SUCCESS", "SERVER_UNAVAILABLE", "NOT_FOUND", "FORBIDDEN", "TIMEOUT",
   "NEW_WILDCARD", "ASSIGNMENT_TYPE", "UNKNOWN_AUTH_SCHEME", "UNKNOWN"}

HssRequests == {"MAR", "UAR", "LIR", "SAR"}

\* The authentication schemes the configuration names, and any other.
Schemes == {"DIGEST", "AKAV1", "AKAV2", "other"}

-----------------------------------------------------------------------------
(* A Diameter HSS.  An answer has a Result-Code or an Experimental-Result- *)
(* Code with the id of the vendor that defines it; "none" is the 0 that    *)
(* stands for an absent one.  "other" is any value the code does not name. *)

ResultCodeAvps ==
  {"none", "DIAMETER_SUCCESS", "DIAMETER_UNABLE_TO_DELIVER",
   "DIAMETER_TOO_BUSY", "DIAMETER_AUTHORIZATION_REJECTED", "other"}

ExperimentalAvps ==
  {"none", "DIAMETER_FIRST_REGISTRATION", "DIAMETER_SUBSEQUENT_REGISTRATION",
   "DIAMETER_UNREGISTERED_SERVICE", "DIAMETER_ERROR_USER_UNKNOWN",
   "DIAMETER_ERROR_IDENTITIES_DONT_MATCH",
   "DIAMETER_ERROR_IDENTITY_NOT_REGISTERED",
   "DIAMETER_ERROR_ROAMING_NOT_ALLOWED", "DIAMETER_ERROR_IN_ASSIGNMENT_TYPE",
   "other"}

\* The answers of an HSS that sets exactly one of the two codes.
DiameterAnswers ==
  {a \in [result : ResultCodeAvps, experimental : ExperimentalAvps,
          vendor : {"3GPP", "other"}, scheme : Schemes, wildcard : BOOLEAN] :
     (a.result = "none") # (a.experimental = "none")}

Is3gpp(a, codes) == a.vendor = "3GPP" /\ a.experimental \in codes

\* MarDiameterTransaction::create_answer.
MaaResult(a) ==
  IF a.result = "DIAMETER_SUCCESS"
    THEN IF a.scheme = "other" THEN "UNKNOWN_AUTH_SCHEME" ELSE "SUCCESS"
  ELSE IF a.result = "DIAMETER_UNABLE_TO_DELIVER" THEN "SERVER_UNAVAILABLE"
  ELSE IF Is3gpp(a, {"DIAMETER_ERROR_USER_UNKNOWN"}) THEN "NOT_FOUND"
  ELSE "UNKNOWN"

\* UarDiameterTransaction::create_answer, which ignores the vendor.
UaaResult(a) ==
  IF \/ a.result = "DIAMETER_SUCCESS"
     \/ a.experimental \in {"DIAMETER_FIRST_REGISTRATION",
                            "DIAMETER_SUBSEQUENT_REGISTRATION"}
    THEN "SUCCESS"
  ELSE IF a.experimental \in {"DIAMETER_ERROR_USER_UNKNOWN",
                              "DIAMETER_ERROR_IDENTITIES_DONT_MATCH"}
    THEN "NOT_FOUND"
  ELSE IF \/ a.result = "DIAMETER_AUTHORIZATION_REJECTED"
          \/ a.experimental = "DIAMETER_ERROR_ROAMING_NOT_ALLOWED"
    THEN "FORBIDDEN"
  ELSE IF a.result = "DIAMETER_TOO_BUSY" THEN "TIMEOUT"
  ELSE IF a.result = "DIAMETER_UNABLE_TO_DELIVER" THEN "SERVER_UNAVAILABLE"
  ELSE "UNKNOWN"

\* LirDiameterTransaction::create_answer.
LiaResult(a) ==
  IF \/ a.result = "DIAMETER_SUCCESS"
     \/ Is3gpp(a, {"DIAMETER_UNREGISTERED_SERVICE",
                   "DIAMETER_ERROR_IDENTITY_NOT_REGISTERED"})
    THEN "SUCCESS"
  ELSE IF Is3gpp(a, {"DIAMETER_ERROR_USER_UNKNOWN"}) THEN "NOT_FOUND"
  ELSE IF a.result = "DIAMETER_TOO_BUSY" THEN "TIMEOUT"
  ELSE IF a.result = "DIAMETER_UNABLE_TO_DELIVER" THEN "SERVER_UNAVAILABLE"
  ELSE "UNKNOWN"

\* SarDiameterTransaction::create_answer.  A wildcard comes with the error
\* "in assignment type" if the IMPU belongs to another wildcarded identity.
SaaResult(a) ==
  IF a.result = "DIAMETER_SUCCESS" THEN "SUCCESS"
  ELSE IF a.result = "DIAMETER_UNABLE_TO_DELIVER" THEN "SERVER_UNAVAILABLE"
  ELSE IF Is3gpp(a, {"DIAMETER_ERROR_USER_UNKNOWN"}) THEN "NOT_FOUND"
  ELSE IF a.experimental = "DIAMETER_ERROR_IN_ASSIGNMENT_TYPE" /\ a.wildcard
    THEN "NEW_WILDCARD"
  ELSE "UNKNOWN"

DiameterResult(request, a) ==
  CASE request = "MAR" -> MaaResult(a)
    [] request = "UAR" -> UaaResult(a)
    [] request = "LIR" -> LiaResult(a)
    [] request = "SAR" -> SaaResult(a)

\* Mutant: a Diameter timeout is presented as an upstream timeout.
TimeoutAsTimeout == "TIMEOUT"

\* DiameterTransaction::on_timeout: no answer in time, or no peer to ask.
TimeoutResult == "SERVER_UNAVAILABLE"

-----------------------------------------------------------------------------
(* Homestead-Prov.                                                         *)

CassandraResults == {"OK", "NOT_FOUND", "other"}

\* The requests that are answered without asking Cassandra: a UAR, and a SAR
\* that takes the user away or reports an authentication failure.
AnsweredInline(request, assigns) ==
  request = "UAR" \/ (request = "SAR" /\ ~assigns)

\* The three create_answer functions.
HsProvResult(cassandra) ==
  CASE cassandra = "OK"        -> "SUCCESS"
    [] cassandra = "NOT_FOUND" -> "NOT_FOUND"
    [] cassandra = "other"     -> "TIMEOUT"
=============================================================================
