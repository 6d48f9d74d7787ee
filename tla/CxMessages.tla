------------------------------ MODULE CxMessages ------------------------------
(***************************************************************************)
(* The Diameter messages of the Cx interface (src/cx.cpp) that Homestead   *)
(* sends, and what it reads out of the answers; and the same for           *)
(* Homestead-Prov's database (src/hsprov_store.cpp).                       *)
(*                                                                         *)
(* A message is a record of the AVPs that depend on the request; a grouped *)
(* AVP is flattened, its members absent where the group is.  The names and *)
(* keys that the code passes on untouched are left out.  The values of     *)
(* enumerated AVPs go by their names in 3GPP TS 29.229.                    *)
(***************************************************************************)
EXTENDS Naturals, Sequences

Absent == "absent"   \* an AVP, or a column, that is not there
Empty  == ""

AddIf(condition, value) == IF condition THEN value ELSE Absent

-----------------------------------------------------------------------------
(* Requests.                                                               *)

\* Cx::MultimediaAuthRequest.
MultimediaAuthRequest(dest_realm, dest_host, server_name, scheme, authorization) ==
  [DESTINATION_REALM |-> dest_realm,
   DESTINATION_HOST  |-> AddIf(dest_host # Empty, dest_host),
   SIP_AUTH_SCHEME   |-> scheme,
   SIP_AUTHORIZATION |-> AddIf(authorization # Empty, authorization),
   SERVER_NAME       |-> server_name]

\* Mutant: only an explicit registration has the type of one.
UserAuthorizationRequestStrict(dest_host, dest_realm, visited_network, type, emergency) ==
  [DESTINATION_HOST  |-> AddIf(dest_host # Empty, dest_host),
   DESTINATION_REALM |-> dest_realm,
   VISITED_NETWORK_IDENTIFIER |-> visited_network,
   USER_AUTHORIZATION_TYPE |-> CASE type = "REG"   -> "REGISTRATION"
                                 [] type = "DEREG" -> "DE_REGISTRATION"
                                 [] OTHER          -> "REGISTRATION_AND_CAPABILITIES",
   UAR_FLAGS |-> AddIf(emergency, "EMERGENCY")]

\* Cx::UserAuthorizationRequest.
UserAuthorizationRequest(dest_host, dest_realm, visited_network, type, emergency) ==
  [DESTINATION_HOST  |-> AddIf(dest_host # Empty, dest_host),
   DESTINATION_REALM |-> dest_realm,
   VISITED_NETWORK_IDENTIFIER |-> visited_network,
   USER_AUTHORIZATION_TYPE |-> CASE type = "DEREG" -> "DE_REGISTRATION"
                                 [] type = "CAPAB" -> "REGISTRATION_AND_CAPABILITIES"
                                 [] OTHER          -> "REGISTRATION",
   UAR_FLAGS |-> AddIf(emergency, "EMERGENCY")]

\* Cx::LocationInfoRequest.
LocationInfoRequest(dest_host, dest_realm, originating, type) ==
  [DESTINATION_HOST  |-> AddIf(dest_host # Empty, dest_host),
   DESTINATION_REALM |-> dest_realm,
   ORIGINATING_REQUEST |-> AddIf(originating = "true", "ORIGINATING"),
   USER_AUTHORIZATION_TYPE |-> AddIf(type = "CAPAB", "REGISTRATION_AND_CAPABILITIES")]

-----------------------------------------------------------------------------
(* Answers.  An answer of the HSS is a record of AVPs.                     *)

ValueOf(avp) == IF avp = Absent THEN Empty ELSE avp

\* The 3GPP's AVP, or the other one that some HSSs use.
EitherAvp(tgpp, other) == IF tgpp # Absent THEN tgpp ELSE ValueOf(other)

\* Mutant: an HSS uses either the 3GPP's AVPs or the others.
digest_auth_vector_uniform(m) ==
  LET tgpp == m.CX_DIGEST_HA1 # Absent
  IN [ha1   |-> ValueOf(IF tgpp THEN m.CX_DIGEST_HA1 ELSE m.DIGEST_HA1),
      realm |-> ValueOf(IF tgpp THEN m.CX_DIGEST_REALM ELSE m.DIGEST_REALM),
      qop   |-> ValueOf(IF tgpp THEN m.CX_DIGEST_QOP ELSE m.DIGEST_QOP)]

\* MultimediaAuthAnswer::digest_auth_vector.
digest_auth_vector(m) ==
  [ha1   |-> EitherAvp(m.CX_DIGEST_HA1, m.DIGEST_HA1),
   realm |-> EitherAvp(m.CX_DIGEST_REALM, m.DIGEST_REALM),
   qop   |-> EitherAvp(m.CX_DIGEST_QOP, m.DIGEST_QOP)]

\* Binary values are sent on as text.
Encoded(encoding, avp) == IF avp = Absent THEN Empty ELSE <<encoding, avp>>

\* MultimediaAuthAnswer::aka_auth_vector.
aka_auth_vector(m) ==
  [challenge     |-> Encoded("base64", m.SIP_AUTHENTICATE),
   response      |-> Encoded("hex", m.SIP_AUTHORIZATION),
   crypt_key     |-> Encoded("hex", m.CONFIDENTIALITY_KEY),
   integrity_key |-> Encoded("hex", m.INTEGRITY_KEY),
   version       |-> 1]

\* MultimediaAuthAnswer::akav2_auth_vector.
akav2_auth_vector(m) == [aka_auth_vector(m) EXCEPT !.version = 2]

\* server_capabilities of UserAuthorizationAnswer and LocationInfoAnswer.
server_capabilities(m) ==
  [mandatory   |-> m.MANDATORY_CAPABILITY,
   optional    |-> m.OPTIONAL_CAPABILITY,
   server_name |-> ValueOf(m.CAPABILITIES_SERVER_NAME)]

NoCapabilities == [mandatory |-> <<>>, optional |-> <<>>, server_name |-> Empty]

-----------------------------------------------------------------------------
(* Homestead-Prov's tables: a row is a sequence of columns, in the order   *)
(* in which Cassandra sends them.                                          *)

\* The value that the column named last among these leaves behind.
Column(row, name) ==
  LET at == {i \in DOMAIN row : row[i].name = name}
  IN IF at = {} THEN Empty ELSE row[CHOOSE i \in at : \A j \in at : j <= i].value

HasColumn(row, name) == \E i \in DOMAIN row : row[i].name = name

\* The subscription, and the values there are in columns of these names.
GetXml(row, default) ==
  IF HasColumn(row, "ims_subscription_xml") THEN Column(row, "ims_subscription_xml") ELSE default
Values(row, names) ==
  LET there == SelectSeq(row, LAMBDA c : c.name \in names /\ c.value # Empty)
  IN [i \in DOMAIN there |-> there[i].value]

\* GetAuthVector::perform: the digest, for a public ID that the private ID has.
GetAuthVector(row) ==
  LET av == [ha1 |-> Column(row, "digest_ha1"), realm |-> Column(row, "digest_realm"),
             qop |-> Column(row, "digest_qop")]
  IN [result |-> IF HasColumn(row, "public_id_") /\ av.ha1 # Empty THEN "OK" ELSE "NOT_FOUND",
      av     |-> av]
=============================================================================
