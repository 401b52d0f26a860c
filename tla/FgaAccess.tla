------------------------------- MODULE FgaAccess -------------------------------
(***************************************************************************)
(* How the Workers of one isolate ask OpenFGA (approval-fga/src/openfga.ts) *)
(* with an access token they share (token-provider.ts): tokens are cached   *)
(* per credentials until shortly before they expire, and callers that find  *)
(* none wait for one exchange.                                              *)
(***************************************************************************)
EXTENDS Integers, Sequences, FiniteSets

CONSTANTS Askers,      \* checks made in one isolate
          Secrets,     \* client secrets; a rotation replaces the configured one
          Unset,       \* no FGA_CLIENT_SECRET is configured
          Margin,      \* the 60 seconds before its expiry in which a token is not reused
          Guess,       \* the 300 seconds assumed of a token that does not say
          Lifetimes,   \* lifetimes the token issuer gives
          MaxInstant   \* bound on time

ASSUME FgaBounds ==
    /\ Unset \notin Secrets
    /\ {Margin, Guess, MaxInstant} \subseteq Nat /\ Lifetimes \subseteq Nat

VARIABLES secret,    \* the configured client secret
          cached,    \* secret -> the token its provider holds
          inflight,  \* secret -> when its exchange was asked for, None without one
          ask,       \* asker -> what it is at
          instant

fgaVars == <<secret, cached, inflight, ask, instant>>

None == -1
(* exp is what the provider believes, ends when the issuer stops accepting. *)
NoToken == [of |-> Unset, issued |-> 0, exp |-> 0, ends |-> 0]
NewAsk == [pc |-> "new", provider |-> Unset, since |-> 0, waited |-> FALSE, token |-> NoToken,
           answer |-> "none"]

-----------------------------------------------------------------------------
(* The HTTP client: what an answer of OpenFGA means.                        *)

Responses == {"allowed", "denied", "malformed", "not_json", "http_401", "http_408", "http_429",
              "http_500", "network_error"}

(* postResponse and postJsonObject: anything but a JSON object is an error. *)
Body(response) == IF response \in {"allowed", "denied", "malformed"} THEN response ELSE "error"

(* check: only a boolean "allowed" decides.                                 *)
CheckAnswer(response) ==
    CASE Body(response) = "allowed" -> "allow"
      [] Body(response) = "denied"  -> "deny"
      [] OTHER -> "error"

(* listUsers: the candidates are complete when every entry is a concrete    *)
(* user and the client was told that its model bounds the list.             *)
ListUsers(entries, assumeComplete) ==
    [users |-> {e.id : e \in {e \in entries : e.kind = "user"}},
     complete |-> assumeComplete /\ \A e \in entries : e.kind = "user"]

(* The provider's object of an organization: both parts are encoded, so the *)
(* "/" between them is the only one.                                        *)
Encoded(text) ==
    LET escape(c) == CASE c = "/" -> <<"%", "2F">> [] c = "%" -> <<"%", "25">> [] OTHER -> <<c>>
        f[n \in 0..Len(text)] == IF n = 0 THEN <<>> ELSE f[n - 1] \o escape(text[n])
    IN  f[Len(text)]
TenantScoped(organization, id) == Encoded(organization) \o <<"/">> \o Encoded(id)

-----------------------------------------------------------------------------
FgaInit ==
    /\ secret \in Secrets \cup {Unset}
    /\ cached = [s \in Secrets |-> NoToken]
    /\ inflight = [s \in Secrets |-> None]
    /\ ask = [a \in Askers |-> NewAsk]
    /\ instant = 0

UntilItExpires(token) == token.exp > instant                               \* mutant
Reusable(token) == token.of # Unset /\ token.exp - Margin > instant

(* A check without credentials is refused before anything is sent.          *)
NotConfigured(a) ==
    /\ ask[a].pc = "new" /\ secret = Unset
    /\ ask' = [ask EXCEPT ![a].pc = "done", ![a].answer = "error"]
    /\ UNCHANGED <<secret, cached, inflight, instant>>

(* getAccessToken of the provider that the credentials share.               *)
GetAccessToken(a) ==
    /\ ask[a].pc = "new" /\ secret # Unset
    /\ LET mine == [NewAsk EXCEPT !.provider = secret, !.since = instant]
       IN  IF Reusable(cached[secret])
           THEN /\ ask' = [ask EXCEPT ![a] = [mine EXCEPT !.pc = "send", !.token = cached[secret]]]
                /\ UNCHANGED inflight
           ELSE /\ ask' = [ask EXCEPT ![a] = [mine EXCEPT !.pc = "wait", !.waited = TRUE]]
                /\ inflight' = [inflight EXCEPT ![secret] = IF @ = None THEN instant ELSE @]
    /\ UNCHANGED <<secret, cached, instant>>

(* What a provider takes for a token's expiry: the exp of a JWT, else       *)
(* expires_in from when it asked, else a guess.                             *)
Expiry(form, asked, ends, lifetime) ==
    CASE form = "jwt" -> ends
      [] form = "expires_in" -> asked + lifetime
      [] OTHER -> asked + Guess

(* An issuer that does not say lets its tokens live for as long as guessed. *)
Stated(form, lifetime) == form = "opaque" => lifetime >= Guess

(* refresh settles: whoever waits for this exchange gets its outcome, and   *)
(* the next caller may start another one.                                   *)
Settled(s, pc, token, answer) ==
    /\ ask' = [a \in Askers |->
                 IF ask[a].pc = "wait" /\ ask[a].provider = s
                 THEN [ask[a] EXCEPT !.pc = pc, !.token = token, !.answer = answer] ELSE ask[a]]
    /\ inflight' = [inflight EXCEPT ![s] = None]

Exchanged(s, form, lifetime) ==
    /\ inflight[s] # None /\ Stated(form, lifetime)
    /\ \E issued \in inflight[s]..instant :
         LET token == [of |-> s, issued |-> issued, ends |-> issued + lifetime,
                       exp |-> Expiry(form, inflight[s], issued + lifetime, lifetime)]
         IN  /\ cached' = [cached EXCEPT ![s] = token]
             /\ Settled(s, "send", token, "none")
    /\ UNCHANGED <<secret, instant>>

ExchangeFails(s) ==
    /\ inflight[s] # None
    /\ Settled(s, "done", NoToken, "error")
    /\ UNCHANGED <<secret, cached, instant>>

(* The provider answers a check; a token it no longer accepts is refused.   *)
Check(a, response) ==
    /\ ask[a].pc = "send"
    /\ ask[a].token.ends < instant => response = "http_401"
    /\ ask' = [ask EXCEPT ![a].pc = "done", ![a].answer = CheckAnswer(response)]
    /\ UNCHANGED <<secret, cached, inflight, instant>>

(* External: a new secret is deployed, and time passes.                     *)
Rotate(s) ==
    /\ secret # s /\ cached[s] = NoToken /\ secret' = s
    /\ UNCHANGED <<cached, inflight, ask, instant>>

Passes ==
    /\ instant < MaxInstant /\ instant' = instant + 1
    /\ UNCHANGED <<secret, cached, inflight, ask>>

FgaNext ==
    \/ \E a \in Askers : \/ NotConfigured(a) \/ GetAccessToken(a)
                         \/ \E response \in Responses : Check(a, response)
    \/ \E s \in Secrets : \/ \E form \in {"jwt", "expires_in", "opaque"}, l \in Lifetimes :
                               Exchanged(s, form, l)
                          \/ ExchangeFails(s) \/ Rotate(s)
    \/ Passes

-----------------------------------------------------------------------------
(* Whoever waits for a token has an exchange under way that will answer it; *)
(* a token out of the cache is of the credentials the caller came with and  *)
(* is accepted for longer than the margin from then on.                     *)
TokensOutlastTheirUse ==
    \A a \in Askers :
       /\ ask[a].pc = "wait" => inflight[ask[a].provider] # None
       /\ ask[a].token # NoToken =>
            /\ ask[a].token.of = ask[a].provider
            /\ ask[a].waited \/ ask[a].token.ends - Margin > ask[a].since

(* Objects of two organizations are never the same object of the provider,  *)
(* whatever separators their names hold.                                    *)
Texts == {<<>>} \cup {<<c>> : c \in {"a", "/", "%", "2F"}}
              \cup {<<c, d>> : c, d \in {"a", "/", "%", "2F"}}
TenantsAreApart ==
    \A o1, o2 \in Texts, i1, i2 \in Texts :
       TenantScoped(o1, i1) = TenantScoped(o2, i2) => o1 = o2 /\ i1 = i2
=============================================================================
