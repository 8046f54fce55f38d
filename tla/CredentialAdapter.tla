------------------------- MODULE CredentialAdapter -------------------------
(***************************************************************************)
(* Adapter.adapt: the one credential of a request, in the mechanism of its *)
(* route, and the key its connections are pooled under (credentials.go).   *)
(*                                                                         *)
(* A presentation is what a request carries: its Authorization values and  *)
(* the proofs a trusted transport attached (Absent when it has not).  Texts *)
(* are sequences of characters; the text of a Basic value is decoded.      *)
(* SHA-256 is taken to be injective: a key is the sequence that is hashed. *)
(***************************************************************************)
EXTENDS Integers, Sequences, FiniteSets, SequencesExt, Functions, RoutePolicy

CONSTANTS
    NUL,          \* the byte 0, a control character
    Undecodable,  \* a character that is not UTF-8
    DefaultMaxCredentialBytes

Space == " "
Colon == ":"

Refused(error) == [error |-> error, credential |-> <<>>, key |-> <<>>]

credentialKey(mechanism, credential) == <<mechanism, NUL>> \o credential

adaptedContext(mechanism, parts, credential) ==
    [error |-> "none", credential |-> <<mechanism>> \o parts,
     key |-> credentialKey(mechanism, credential)]

hasNKeyProof(p) == p.nkey # Absent
hasNKeyJWTProof(p) == p.jwt # Absent
hasTLSProof(p) == p.tls # Absent
hasTrustedProof(p) == hasNKeyProof(p) \/ hasNKeyJWTProof(p) \/ hasTLSProof(p)

\* Mutant: any character may be part of a name or password.
validBasicCredentialAny(text, limit) == Len(text) \in 1 .. limit

validBasicCredential(text, limit) ==
    Len(text) \in 1 .. limit /\ Range(text) \cap {NUL, Undecodable} = {}

validTextCredential(text, limit) ==
    Len(text) \in 1 .. limit /\ Range(text) \cap {NUL, Undecodable, Space} = {}

\* The checks bearerToken and basicCredentials share.
authorizationError(p) ==
    IF p.authorization = <<>> THEN "missing"
    ELSE IF Len(p.authorization) # 1 \/ p.authorization[1].comma THEN "ambiguous"
    ELSE "none"

bearerToken(p, limit) ==
    IF authorizationError(p) # "none" THEN Refused(authorizationError(p))
    ELSE LET value == p.authorization[1]
         IN  IF value.scheme = "Bearer" /\ validTextCredential(value.text, limit)
             THEN adaptedContext("bearer_token", <<value.text>>, value.text)
             ELSE Refused("malformed")

\* request.BasicAuth divides the decoded text at its first colon.
basicCredentials(p, limit) ==
    IF authorizationError(p) # "none" THEN Refused(authorizationError(p))
    ELSE LET value == p.authorization[1]
             colon == SelectInSeq(value.text, LAMBDA c : c = Colon)
             username == SubSeq(value.text, 1, colon - 1)
             password == SubSeq(value.text, colon + 1, Len(value.text))
         IN  IF /\ value.scheme = "Basic" /\ colon # 0
                /\ validBasicCredential(username, limit) /\ validBasicCredential(password, limit)
             THEN adaptedContext("user_password", <<username, password>>,
                                 username \o <<NUL>> \o password)
             ELSE Refused("malformed")

nkeyProof(p, limit) ==
    IF /\ hasNKeyProof(p)
       /\ validTextCredential(p.nkey.publicKey, limit) /\ p.nkey.sign
    THEN adaptedContext("nkey", <<p.nkey.publicKey>>, p.nkey.publicKey)
    ELSE Refused("proof unavailable")

\* The JWT is asked for at once; the callback may fail (Absent).
nkeyJWTProof(p, limit) ==
    IF ~hasNKeyJWTProof(p) \/ ~p.jwt.sign \/ p.jwt.jwt = Absent THEN Refused("proof unavailable")
    ELSE IF ~validTextCredential(p.jwt.jwt, limit) THEN Refused("malformed")
    ELSE adaptedContext("nkey_jwt", <<p.jwt.jwt>>, p.jwt.jwt)

\* The fingerprint of the first certificate of the chain.
tlsProof(p) ==
    IF hasTLSProof(p) /\ p.tls.chain # <<>> /\ p.tls.privateKey
    THEN adaptedContext("tls", <<p.tls.chain[1]>>, <<p.tls.chain[1]>>)
    ELSE Refused("proof unavailable")

\* Mutant: a proof of another kind does not stand in the way of a token.
ForeignCredentialHeaders(mechanism, p) ==
    mechanism \in {"nkey", "nkey_jwt", "tls"} /\ p.authorization # <<>>

\* A credential of another kind is presented as well.
ForeignCredential(mechanism, p) ==
    CASE mechanism \in {"bearer_token", "user_password"} -> hasTrustedProof(p)
      [] mechanism = "nkey" -> p.authorization # <<>> \/ hasNKeyJWTProof(p) \/ hasTLSProof(p)
      [] mechanism = "nkey_jwt" -> p.authorization # <<>> \/ hasNKeyProof(p) \/ hasTLSProof(p)
      [] mechanism = "tls" -> p.authorization # <<>> \/ hasNKeyProof(p) \/ hasNKeyJWTProof(p)

adapt(security, p) ==
    LET mechanism == security.mechanism
        limit == IF security.maxCredentialBytes = 0 THEN DefaultMaxCredentialBytes
                 ELSE security.maxCredentialBytes
    IN  IF ForeignCredential(mechanism, p) THEN Refused("ambiguous")
        ELSE CASE mechanism = "bearer_token" -> bearerToken(p, limit)
               [] mechanism = "user_password" -> basicCredentials(p, limit)
               [] mechanism = "nkey" -> nkeyProof(p, limit)
               [] mechanism = "nkey_jwt" -> nkeyJWTProof(p, limit)
               [] mechanism = "tls" -> tlsProof(p)
=============================================================================
