----------------------------- MODULE Challenges -----------------------------
(***************************************************************************)
(* The three one-time challenges of the API, for one account:              *)
(*  - Sep10Service: a transaction that carries a nonce, with the button    *)
(*    that fetches it, has Freighter sign it and submits it;               *)
(*  - AnchorService: a nonce signed as text and exchanged for a token;     *)
(*  - WebAuthnService: a passkey challenge, kept in the process's memory.  *)
(* The first two spend a nonce with a read and a later write in Redis.     *)
(* Every challenge expires.                                                *)
(***************************************************************************)
EXTENDS Naturals, FiniteSets

CONSTANTS Nonces,       \* random values; each store draws from its own copy
          Verifies,     \* POST /auth/sep10/verify requests in flight
          TokenCalls,   \* POST /anchor/auth/token requests in flight
          NoNonce

ASSUME ChallengeAssumption == NoNonce \notin Nonces

(* A string is a random value and how often it has been base64 encoded.    *)
Encoded(s) == [s EXCEPT !.times = @ + 1]
RandomString(n) == [value |-> n, times |-> 0]
NonceString(n) == Encoded(RandomString(n))

VARIABLES stored10,     \* the nonce strings under sep10:nonce:<account>
          issued10,     \* the nonces ever issued by generateChallenge
          button,       \* Sep10LoginButton: its state and its challenge
          verify,       \* verify[v]: a verify request
          anchorNonce,  \* anchorNonce[n]: the Redis value, "none" when absent
          tokenCall,    \* tokenCall[t]: a token request
          tokens,       \* tokens[n]: anchor tokens issued for nonce n
          lateTokens,   \* of these, to requests that began after the first
          pending,      \* pending passkey challenges
          passkeys,     \* whether the user has a registered passkey
          spent         \* spent[n]: how often passkey challenge n was accepted

sep10Vars == <<stored10, issued10, button, verify>>
anchorNonceVars == <<anchorNonce, tokenCall, tokens, lateTokens>>
passkeyVars == <<pending, passkeys, spent>>
challengeVars == <<stored10, issued10, button, verify, anchorNonce, tokenCall, tokens,
                   lateTokens, pending, passkeys, spent>>

ButtonState == {"idle", "connecting", "signing", "success"}

IdleVerify == [at |-> "idle", n |-> NoNonce, own |-> FALSE]

ChallengeTypeOK ==
    /\ stored10 \subseteq [value : Nonces, times : 0..2]
    /\ issued10 \subseteq Nonces
    /\ button \in [state : ButtonState, n : Nonces \cup {NoNonce}, error : BOOLEAN]
    /\ verify \in [Verifies -> [at : {"idle", "get", "del", "signatures"},
                                n : Nonces \cup {NoNonce}, own : BOOLEAN]]
    /\ anchorNonce \in [Nonces -> {"none", "issued", "used"}]
    /\ tokenCall \in [TokenCalls -> [at : {"idle", "mark", "sign"},
                                     n : Nonces \cup {NoNonce}, late : BOOLEAN]]
    /\ tokens \in [Nonces -> Nat] /\ lateTokens \in Nat
    /\ pending \subseteq Nonces /\ passkeys \in BOOLEAN /\ spent \in [Nonces -> Nat]

ChallengeInit ==
    /\ stored10 = {} /\ issued10 = {}
    /\ button = [state |-> "idle", n |-> NoNonce, error |-> FALSE]
    /\ verify = [v \in Verifies |-> IdleVerify]
    /\ anchorNonce = [n \in Nonces |-> "none"]
    /\ tokenCall = [t \in TokenCalls |-> [at |-> "idle", n |-> NoNonce, late |-> FALSE]]
    /\ tokens = [n \in Nonces |-> 0] /\ lateTokens = 0
    /\ pending = {} /\ passkeys = FALSE /\ spent = [n \in Nonces |-> 0]

-----------------------------------------------------------------------------
(* Sep10LoginButton.handleClick and Sep10Service                           *)

(* The click asks Freighter for the account.                               *)
ClickLogin ==
    /\ button.state = "idle"
    /\ button' = [state |-> "connecting", n |-> NoNonce, error |-> FALSE]
    /\ UNCHANGED <<stored10, issued10, verify>>
    /\ UNCHANGED anchorNonceVars /\ UNCHANGED passkeyVars

(* Whether the button's signed challenge is with the server.               *)
Submitted == \E v \in Verifies : verify[v].at # "idle" /\ ~verify[v].own

(* No account, no challenge, or the user declines to sign.                 *)
LoginFails ==
    /\ button.state \in {"connecting", "signing"} /\ ~Submitted
    /\ button' = [state |-> "idle", n |-> NoNonce, error |-> TRUE]
    /\ UNCHANGED <<stored10, issued10, verify>>
    /\ UNCHANGED anchorNonceVars /\ UNCHANGED passkeyVars

FreighterConnected ==
    /\ button.state = "connecting"
    /\ button' = [button EXCEPT !.state = "signing"]
    /\ UNCHANGED <<stored10, issued10, verify>>
    /\ UNCHANGED anchorNonceVars /\ UNCHANGED passkeyVars

(* generateChallenge: the nonce is the base64 string of random bytes; the  *)
(* key is stored under it, and its characters are the manage_data value.   *)
GenerateChallenge(n) ==
    /\ button.state = "signing" /\ button.n = NoNonce
    /\ n \notin issued10
    /\ issued10' = issued10 \cup {n}
    /\ stored10' = stored10 \cup {NonceString(n)}
    /\ button' = [button EXCEPT !.n = n]
    /\ UNCHANGED verify
    /\ UNCHANGED anchorNonceVars /\ UNCHANGED passkeyVars

NonceExpires(s) ==
    /\ stored10' = stored10 \ {s}
    /\ UNCHANGED <<issued10, button, verify>>
    /\ UNCHANGED anchorNonceVars /\ UNCHANGED passkeyVars

(* A signed transaction is submitted: the button's, or one a client built  *)
(* around the nonce's own bytes, which the server has not signed.          *)
SubmitChallenge(v, n, own) ==
    /\ verify[v].at = "idle"
    /\ IF own THEN n \in issued10
              ELSE button.state = "signing" /\ button.n = n /\ ~Submitted
    /\ verify' = [verify EXCEPT ![v] = [at |-> "get", n |-> n, own |-> own]]
    /\ UNCHANGED <<stored10, issued10, button>>
    /\ UNCHANGED anchorNonceVars /\ UNCHANGED passkeyVars

(* extractChallengeOp encodes the manage_data value to get the nonce: of   *)
(* the issued transaction the string's bytes, of an own one the raw bytes. *)
ExtractedNonce(v) ==
    Encoded(IF verify[v].own THEN RandomString(verify[v].n) ELSE NonceString(verify[v].n))

(* The button shows the error the request ended with.                      *)
Rejected(v) ==
    /\ verify' = [verify EXCEPT ![v] = IdleVerify]
    /\ button' = IF verify[v].own THEN button
                                  ELSE [state |-> "idle", n |-> NoNonce, error |-> TRUE]

(* consumeNonce: GET, and a later DEL whose result is not looked at.       *)
GetNonce(v) ==
    /\ verify[v].at = "get"
    /\ IF ExtractedNonce(v) \in stored10
         THEN verify' = [verify EXCEPT ![v].at = "del"] /\ UNCHANGED button
         ELSE Rejected(v)
    /\ UNCHANGED <<stored10, issued10>>
    /\ UNCHANGED anchorNonceVars /\ UNCHANGED passkeyVars

DelNonce(v) ==
    /\ verify[v].at = "del"
    /\ stored10' = stored10 \ {ExtractedNonce(v)}
    /\ verify' = [verify EXCEPT ![v].at = "signatures"]
    /\ UNCHANGED <<issued10, button>>
    /\ UNCHANGED anchorNonceVars /\ UNCHANGED passkeyVars

(* assertServerSignature refuses a transaction the server has not signed;  *)
(* the other one gets its token and the button reports success.            *)
CheckSignatures(v) ==
    /\ verify[v].at = "signatures"
    /\ IF verify[v].own
         THEN Rejected(v)
         ELSE /\ verify' = [verify EXCEPT ![v] = IdleVerify]
              /\ button' = [button EXCEPT !.state = "success"]
    /\ UNCHANGED <<stored10, issued10>>
    /\ UNCHANGED anchorNonceVars /\ UNCHANGED passkeyVars

-----------------------------------------------------------------------------
(* AnchorAuthController and AnchorService                                  *)

IssueChallengeNonce(n) ==
    /\ anchorNonce[n] = "none" /\ tokens[n] = 0 /\ \A t \in TokenCalls : tokenCall[t].n # n
    /\ anchorNonce' = [anchorNonce EXCEPT ![n] = "issued"]
    /\ UNCHANGED <<tokenCall, tokens, lateTokens>>
    /\ UNCHANGED sep10Vars /\ UNCHANGED passkeyVars

AnchorNonceExpires(n) ==
    /\ anchorNonce[n] # "none"
    /\ anchorNonce' = [anchorNonce EXCEPT ![n] = "none"]
    /\ UNCHANGED <<tokenCall, tokens, lateTokens>>
    /\ UNCHANGED sep10Vars /\ UNCHANGED passkeyVars

(* consumeChallengeNonce, the GET: an absent or a used nonce is refused.   *)
ConsumeChallengeNonce(t, n) ==
    /\ tokenCall[t].at = "idle"
    /\ anchorNonce[n] = "issued"
    /\ tokenCall' = [tokenCall EXCEPT ![t] = [at |-> "mark", n |-> n, late |-> tokens[n] > 0]]
    /\ UNCHANGED <<anchorNonce, tokens, lateTokens>>
    /\ UNCHANGED sep10Vars /\ UNCHANGED passkeyVars

(* A token request that does not spend its nonce.                          *)
LeaveNonceIssued(t) ==
    /\ tokenCall[t].at = "mark"
    /\ tokenCall' = [tokenCall EXCEPT ![t].at = "sign"]
    /\ UNCHANGED <<anchorNonce, tokens, lateTokens>>
    /\ UNCHANGED sep10Vars /\ UNCHANGED passkeyVars

MarkNonceUsed(t) ==
    /\ tokenCall[t].at = "mark"
    /\ anchorNonce' = [anchorNonce EXCEPT ![tokenCall[t].n] = "used"]
    /\ tokenCall' = [tokenCall EXCEPT ![t].at = "sign"]
    /\ UNCHANGED <<tokens, lateTokens>>
    /\ UNCHANGED sep10Vars /\ UNCHANGED passkeyVars

(* validateChallengeSignature comes last: a bad one has spent the nonce.   *)
GenerateToken(t) ==
    LET r == tokenCall[t] IN
    /\ r.at = "sign"
    /\ \/ /\ tokens' = [tokens EXCEPT ![r.n] = @ + 1]
          /\ lateTokens' = IF r.late THEN lateTokens + 1 ELSE lateTokens
       \/ UNCHANGED <<tokens, lateTokens>>
    /\ tokenCall' = [tokenCall EXCEPT ![t] = [at |-> "idle", n |-> NoNonce, late |-> FALSE]]
    /\ UNCHANGED anchorNonce
    /\ UNCHANGED sep10Vars /\ UNCHANGED passkeyVars

-----------------------------------------------------------------------------
(* WebAuthnService: synchronous, in memory                                 *)

SaveChallenge(n) ==
    /\ n \notin pending /\ spent[n] = 0
    /\ pending' = pending \cup {n}
    /\ UNCHANGED <<passkeys, spent>>
    /\ UNCHANGED sep10Vars /\ UNCHANGED anchorNonceVars

(* The challenge is spent before the response is looked at: a response     *)
(* that fails a later check costs the user a new challenge.                *)
ConsumeChallenge(n, ok) ==
    /\ n \in pending
    /\ pending' = pending \ {n}
    /\ spent' = [spent EXCEPT ![n] = IF ok THEN @ + 1 ELSE @]

VerifyRegistration(n, ok) ==
    /\ ConsumeChallenge(n, ok)
    /\ passkeys' = (passkeys \/ ok)
    /\ UNCHANGED sep10Vars /\ UNCHANGED anchorNonceVars

VerifyAuthentication(n, ok) ==
    /\ passkeys
    /\ ConsumeChallenge(n, ok)
    /\ UNCHANGED passkeys
    /\ UNCHANGED sep10Vars /\ UNCHANGED anchorNonceVars

ChallengeExpires(n) ==
    /\ pending' = pending \ {n}
    /\ UNCHANGED <<passkeys, spent>>
    /\ UNCHANGED sep10Vars /\ UNCHANGED anchorNonceVars

(* Registrations and challenges live in the process and die with it.       *)
ApiRestarts ==
    /\ passkeys' = FALSE /\ pending' = {}
    /\ UNCHANGED spent
    /\ UNCHANGED sep10Vars /\ UNCHANGED anchorNonceVars

Sep10Next ==
    \/ ClickLogin \/ LoginFails \/ FreighterConnected
    \/ \E n \in Nonces : GenerateChallenge(n)
    \/ \E s \in stored10 : NonceExpires(s)
    \/ \E v \in Verifies : \/ \E n \in Nonces, own \in BOOLEAN : SubmitChallenge(v, n, own)
                           \/ GetNonce(v) \/ DelNonce(v) \/ CheckSignatures(v)

AnchorNonceNext ==
    \/ \E n \in Nonces : IssueChallengeNonce(n) \/ AnchorNonceExpires(n)
    \/ \E t \in TokenCalls : \/ \E n \in Nonces : ConsumeChallengeNonce(t, n)
                             \/ MarkNonceUsed(t) \/ GenerateToken(t)

PasskeyNext ==
    \/ \E n \in Nonces : SaveChallenge(n) \/ ChallengeExpires(n)
    \/ \E n \in Nonces, ok \in BOOLEAN : VerifyRegistration(n, ok) \/ VerifyAuthentication(n, ok)
    \/ ApiRestarts

ChallengeNext == Sep10Next \/ AnchorNonceNext \/ PasskeyNext

ChallengeSpec == ChallengeInit /\ [][ChallengeNext]_challengeVars

-----------------------------------------------------------------------------
(* A challenge is good for one use.  The anchor's read and write are apart *)
(* so requests in flight together may all get a token; none that begins    *)
(* after the first token was issued does.  A passkey challenge is spent in *)
(* one step and accepted at most once.                                     *)
ChallengesAreSpent ==
    /\ lateTokens = 0
    /\ \A n \in Nonces : spent[n] <= 1

(* A client that signs the challenge it was given, and submits it while    *)
(* its nonce is stored, gets past the nonce check: consumeNonce refuses no *)
(* challenge that generateChallenge issued and nobody has spent.           *)
SignedChallengeIsAccepted ==
    [][\A v \in Verifies :
          verify[v].at = "get" /\ ~verify[v].own /\ NonceString(verify[v].n) \in stored10
              => verify'[v].at # "idle"]_challengeVars
=============================================================================
