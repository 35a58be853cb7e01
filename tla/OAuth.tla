---------------------------------- MODULE OAuth ----------------------------------
(***************************************************************************)
(* The OAuth token broker of the gateway: the state of an authorization    *)
(* (OAuthStateStore), the connection it leads to (OAuthConnectionStore)    *)
(* and the refreshing of its tokens, by POST /refresh (oauth_api.py) or    *)
(* before a tool call (proxy.py).                                          *)
(*                                                                         *)
(* The provider is outside src/: it answers an exchange with a code once,  *)
(* and a refresh with the refresh token it accepts now.  One that rotates  *)
(* replaces that token at each refresh.  Tokens are numbered in the order  *)
(* in which the provider hands them out, per connection.                   *)
(***************************************************************************)
EXTENDS Naturals, FiniteSets

CONSTANTS OAuthStates,  \* values of the state parameter
          Connections,  \* connection ids
          Requests,     \* slots for requests in flight
          Rotating,     \* the provider rotates refresh tokens
          Lifetime,     \* expires_in of an access token
          Leeway,       \* _REFRESH_LEEWAY of the proxy
          StateTtl,     \* ttl_seconds of the state store
          LastTick,     \* bound on the clock
          MaxGrants,    \* bound on the refreshes the provider answers
          MaxCodes      \* bound on the codes a user gets for one state

ASSUME OAuthAssumption ==
  /\ Rotating \in BOOLEAN
  /\ {Lifetime, Leeway, StateTtl, LastTick, MaxGrants, MaxCodes} \subseteq Nat
  /\ Leeway < Lifetime /\ LastTick >= 1

VARIABLES tick,      \* clock
          pending,   \* the row of each state, or none
          codes,     \* codes the user brought back for each state
          conn,      \* the row of each connection, or none
          accepted,  \* the refresh token the provider accepts, 0 if none
          granted,   \* refreshes the provider has answered
          req,       \* requests in flight
          lost,      \* connections whose new tokens were lost with a request
          made,      \* history: connections made from each state
          raced      \* history: states read by two callbacks before a mark

oauthVars == <<tick, pending, codes, conn, accepted, granted, req, lost, made, raced>>

Ticks == 1..LastTick
NoRow == [row |-> "none"]
NoRequest == [at |-> "none"]

NewRow(token, expires) == [row |-> "live", refresh |-> token, expires |-> expires]

OAuthTypeOK ==
  /\ tick \in Ticks
  /\ pending \in [OAuthStates -> {NoRow}
                    \cup [row: {"state"}, used: BOOLEAN, born: Ticks]]
  /\ codes \in [OAuthStates -> 0..MaxCodes]
  /\ conn \in [Connections -> {NoRow, [row |-> "deleted"]}
                 \cup [row: {"live"}, refresh: 1..MaxGrants + 1,
                       expires: 1..LastTick + Lifetime]]
  /\ accepted \in [Connections -> 0..MaxGrants + 1]
  /\ granted \in [Connections -> 0..MaxGrants]
  /\ req \in [Requests -> {NoRequest}
                \cup [at: {"mark", "exchange"}, state: OAuthStates]
                \cup [at: {"create"}, state: OAuthStates, expires: 1..LastTick + Lifetime]
                \cup [at: {"grant"}, conn: Connections, token: 1..MaxGrants + 1]
                \cup [at: {"check", "update"}, conn: Connections,
                      token: 1..MaxGrants + 1, expires: 1..LastTick + Lifetime]]
  /\ lost \subseteq Connections
  /\ made \in [OAuthStates -> SUBSET Connections] /\ raced \subseteq OAuthStates
  /\ \A c \in Connections : accepted[c] = 0 <=> conn[c] = NoRow

OAuthInit ==
  /\ tick = 1
  /\ pending = [s \in OAuthStates |-> NoRow]
  /\ codes = [s \in OAuthStates |-> 0]
  /\ conn = [c \in Connections |-> NoRow]
  /\ accepted = [c \in Connections |-> 0]
  /\ granted = [c \in Connections |-> 0]
  /\ req = [i \in Requests |-> NoRequest]
  /\ lost = {} /\ made = [s \in OAuthStates |-> {}] /\ raced = {}

LiveRow(c) == conn[c].row = "live"
--------------------------------------------------------------------------------
(* Authorize, and the provider's redirects of the user back to us: one for *)
(* every time the user consents at the URL that carries the state.         *)
Authorize(s) ==
  /\ pending[s] = NoRow /\ codes[s] = 0
  /\ pending' = [pending EXCEPT ![s] = [row |-> "state", used |-> FALSE, born |-> tick]]
  /\ UNCHANGED <<tick, codes, conn, accepted, granted, req, lost, made, raced>>

\* consume, the read: unknown, used and expired states are refused, and the
\* row of an expired one is deleted.
Refused(s) == pending[s] = NoRow \/ pending[s].used
TimedOut(s) == tick - pending[s].born > StateTtl

CallbackRead(i, s) ==
  /\ req[i] = NoRequest
  /\ codes[s] < MaxCodes /\ ~Refused(s)
  /\ codes' = [codes EXCEPT ![s] = @ + 1]
  /\ IF TimedOut(s)
       THEN pending' = [pending EXCEPT ![s] = NoRow] /\ UNCHANGED <<req, raced>>
       ELSE /\ req' = [req EXCEPT ![i] = [at |-> "mark", state |-> s]]
            /\ raced' = IF \E j \in Requests : req[j].at = "mark" /\ req[j].state = s
                        THEN raced \cup {s} ELSE raced
            /\ UNCHANGED pending
  /\ UNCHANGED <<tick, conn, accepted, granted, lost, made>>

\* consume, the update: it does not look at the row again.
\* mutant: the state is not marked.
MutMarked(s) == pending[s]

Marked(s) == IF pending[s] = NoRow THEN NoRow ELSE [pending[s] EXCEPT !.used = TRUE]

CallbackMark(i) ==
  /\ req[i].at = "mark"
  /\ pending' = [pending EXCEPT ![req[i].state] = Marked(req[i].state)]
  /\ req' = [req EXCEPT ![i] = [at |-> "exchange", state |-> @.state]]
  /\ UNCHANGED <<tick, codes, conn, accepted, granted, lost, made, raced>>

\* exchange_code_for_token and fetch_user_info: either may fail.
Exchange(i) ==
  /\ req[i].at = "exchange"
  /\ \/ req' = [req EXCEPT ![i] = [at |-> "create", state |-> @.state,
                                   expires |-> tick + Lifetime]]
     \/ req' = [req EXCEPT ![i] = NoRequest]
  /\ UNCHANGED <<tick, pending, codes, conn, accepted, granted, lost, made, raced>>

CreateConnection(i, c) ==
  /\ req[i].at = "create" /\ conn[c] = NoRow
  /\ conn' = [conn EXCEPT ![c] = NewRow(1, req[i].expires)]
  /\ accepted' = [accepted EXCEPT ![c] = 1]
  /\ made' = [made EXCEPT ![req[i].state] = @ \cup {c}]
  /\ req' = [req EXCEPT ![i] = NoRequest]
  /\ UNCHANGED <<tick, pending, codes, granted, lost, raced>>
--------------------------------------------------------------------------------
(* Refresh.  POST /refresh always asks the provider, the proxy only within *)
(* the leeway before the access token expires.                             *)
RefreshRead(i, c) ==
  /\ req[i] = NoRequest /\ LiveRow(c)
  /\ req' = [req EXCEPT ![i] = [at |-> "grant", conn |-> c, token |-> conn[c].refresh]]
  /\ UNCHANGED <<tick, pending, codes, conn, accepted, granted, lost, made, raced>>

ProxyRead(i, c) ==
  /\ LiveRow(c) /\ conn[c].expires <= tick + Leeway
  /\ RefreshRead(i, c)

\* mutant: the refresh token of the answer is not stored.
MutStoredToken(sent, got) == sent

\* update_tokens keeps the refresh token when the answer has none.
StoredToken(sent, got) == IF Rotating THEN got ELSE sent

\* The provider refuses a refresh token it has replaced; the proxy then goes
\* on with the access token it has.
Grant(i) ==
  LET c == req[i].conn
      new == IF Rotating THEN accepted[c] + 1 ELSE accepted[c]
  IN  /\ req[i].at = "grant"
      /\ IF req[i].token = accepted[c] /\ granted[c] < MaxGrants
           THEN /\ accepted' = [accepted EXCEPT ![c] = new]
                /\ granted' = [granted EXCEPT ![c] = @ + 1]
                /\ req' = [req EXCEPT ![i] =
                     [at |-> "check", conn |-> c, expires |-> tick + Lifetime,
                      token |-> StoredToken(req[i].token, new)]]
           ELSE req' = [req EXCEPT ![i] = NoRequest] /\ UNCHANGED <<accepted, granted>>
      /\ UNCHANGED <<tick, pending, codes, conn, lost, made, raced>>

\* update_tokens reads the row first; a deleted one is a 404.
UpdateCheck(i) ==
  /\ req[i].at = "check"
  /\ req' = [req EXCEPT ![i] = IF LiveRow(@.conn) THEN [@ EXCEPT !.at = "update"]
                               ELSE NoRequest]
  /\ UNCHANGED <<tick, pending, codes, conn, accepted, granted, lost, made, raced>>

\* UPDATE ... WHERE id: nothing when the row has been deleted since.
Updated(c, token, expires) == IF LiveRow(c) THEN NewRow(token, expires) ELSE conn[c]

UpdateTokens(i) ==
  /\ req[i].at = "update"
  /\ conn' = [conn EXCEPT ![req[i].conn] =
                Updated(req[i].conn, req[i].token, req[i].expires)]
  /\ req' = [req EXCEPT ![i] = NoRequest]
  /\ UNCHANGED <<tick, pending, codes, accepted, granted, lost, made, raced>>

DeleteConnection(c) ==
  /\ LiveRow(c)
  /\ conn' = [conn EXCEPT ![c] = [row |-> "deleted"]]
  /\ UNCHANGED <<tick, pending, codes, accepted, granted, req, lost, made, raced>>

\* The gateway stops, or the client of the request disconnects.
RequestLost(i) ==
  /\ req[i] # NoRequest
  /\ lost' = lost \cup IF req[i].at \in {"check", "update"} THEN {req[i].conn} ELSE {}
  /\ req' = [req EXCEPT ![i] = NoRequest]
  /\ UNCHANGED <<tick, pending, codes, conn, accepted, granted, made, raced>>

OAuthTick ==
  /\ tick < LastTick
  /\ tick' = tick + 1
  /\ UNCHANGED <<pending, codes, conn, accepted, granted, req, lost, made, raced>>

OAuthNext ==
  \/ \E s \in OAuthStates : Authorize(s)
  \/ \E i \in Requests, s \in OAuthStates : CallbackRead(i, s)
  \/ \E i \in Requests : \/ CallbackMark(i) \/ Exchange(i)
                         \/ Grant(i) \/ UpdateCheck(i) \/ UpdateTokens(i)
                         \/ RequestLost(i)
  \/ \E i \in Requests, c \in Connections : \/ CreateConnection(i, c)
                                            \/ RefreshRead(i, c) \/ ProxyRead(i, c)
  \/ \E c \in Connections : DeleteConnection(c)
  \/ OAuthTick

OAuthSpec == OAuthInit /\ [][OAuthNext]_oauthVars
--------------------------------------------------------------------------------
(* A connection can always be refreshed: however refreshes overlap, the    *)
(* refresh token in its row is the one the provider accepts, or a request  *)
(* in flight carries that one to the row.  Only a request lost between the *)
(* provider's answer and the update leaves the row with a dead token.      *)
RefreshTokenAlive ==
  \A c \in Connections :
    LiveRow(c) /\ c \notin lost =>
      \/ conn[c].refresh = accepted[c]
      \/ \E i \in Requests : /\ req[i].at \in {"check", "update"}
                             /\ req[i].conn = c /\ req[i].token = accepted[c]

(* A state makes two connections only if two callbacks read its row before *)
(* either marked it: a lost request, an expired row or a user who comes    *)
(* back later makes no second one.                                         *)
SecondUseNeedsRace ==
  \A s \in OAuthStates : Cardinality(made[s]) > 1 => s \in raced
================================================================================
