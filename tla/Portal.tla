------------------------------- MODULE Portal -------------------------------
(***************************************************************************)
(* The web portal (porta-server/src/web/portal.rs, session.rs, admin.rs,   *)
(* downloads.rs and the WebRegistryAdapter of integration.rs): signing in  *)
(* with a token or an access link, the store of browser sessions, the      *)
(* pages and downloads a session or a ticket opens, and the changes an     *)
(* administrator makes to the accounts meanwhile.                          *)
(*                                                                         *)
(* A request runs in its own thread and takes the locks of the rate limit, *)
(* of the registry and of the session store one after the other: between   *)
(* two of them other requests run.  It reads the clock once, when it       *)
(* begins.  Sealing (AES-GCM, HMAC) is perfect: what opens is what was     *)
(* sealed, under the same binding.  A token stands for its hash; secrets   *)
(* of 256 random bits are guessed by nobody.                               *)
(***************************************************************************)
EXTENDS Integers, FiniteSets

CONSTANTS Clients, Requests,
          MaxSessions, MaxPerLogin,   \* MAX_PORTAL_SESSIONS(_PER_LOGIN)
          SessionTtl, TicketTtl,      \* PORTAL_SESSION_TTL_SECS, DOWNLOAD_TICKET_TTL_SECS
          Sizes, Offsets,             \* of a file to download, in a range of its bytes
          MaxTime, MaxIds, MaxTokens, \* bounds: the clock, sessions started, tokens of a client
          Admin, None

VARIABLES registry,  \* the accounts: known, enabled, the number of the token
          store,     \* SessionState: sessions, by_expiry, by_scope
          links,     \* tokens an access link was made for
          ticket,    \* when the last download ticket expires
          requests,  \* the requests that run
          now,
          used,      \* the ids of the sessions started so far
          gone,      \* history: the ids of those signed out of
          last       \* what the last step gave to a request, if it did

portal_vars == <<registry, store, links, ticket, requests, now, used, gone, last>>
----------------------------------------------------------------------------
Ids == 0..(MaxIds - 1)
Token(c, n) == [client |-> c, number |-> n]
AdminToken == Token(Admin, 0)
Tokens == [client : Clients, number : 1..MaxTokens]
Sessions == [who : Clients \cup {Admin}, token : Tokens \cup {AdminToken}, expires_at : Nat]
Idle == [pc |-> "idle", now |-> 0, seen |-> {}, out |-> FALSE, id |-> 0, credential |-> None, session |-> None]
Absent == [known |-> FALSE, enabled |-> FALSE, token |-> 0]

(* SessionStore::new makes both limits at least one. *)
ASSUME PortalAssumption ==
  /\ MaxSessions \in Nat \ {0} /\ MaxPerLogin \in Nat \ {0}
  /\ SessionTtl \in Nat /\ TicketTtl \in Nat /\ Sizes \subseteq Nat /\ Offsets \subseteq Nat
  /\ MaxTime \in Nat /\ MaxIds \in Nat /\ MaxTokens \in Nat \ {0}
  /\ Admin \notin Clients /\ None \notin Tokens \cup {AdminToken} /\ None \notin Sessions

PortalInit ==
  /\ registry = [c \in Clients |-> Absent]
  /\ store = [sessions |-> [id \in {} |-> None], by_expiry |-> {}, by_scope |-> [scope \in {} |-> {}]]
  /\ links = {} /\ ticket = -1
  /\ requests = [r \in Requests |-> Idle]
  /\ now = 0 /\ used = {} /\ gone = {} /\ last = None

(* portal_client_active, and the tokens it holds for. *)
Active(reg) == {tok \in Tokens : reg[tok.client].known /\ reg[tok.client].enabled /\ reg[tok.client].token = tok.number}
portal_client_active(tok) == tok \in Active(registry)
----------------------------------------------------------------------------
(* SessionStore.  A session's scope is its role and client; its entry in    *)
(* the indexes is ordered by the expiry and then by the id, which is random. *)
Scope(session) == session.who
Entry(sessions, id) == <<sessions[id].expires_at, id>>
ScopeOf(st, scope) == IF scope \in DOMAIN st.by_scope THEN st.by_scope[scope] ELSE {}
Before(e, f) == e[1] < f[1] \/ (e[1] = f[1] /\ e[2] < f[2])

(* A mutant: the index by scope is left as it is. *)
remove_locked_partly(st, ids) ==
  LET out == ids \cap DOMAIN st.sessions
  IN [st EXCEPT !.sessions = [id \in DOMAIN st.sessions \ out |-> st.sessions[id]],
                !.by_expiry = st.by_expiry \ {Entry(st.sessions, id) : id \in out}]

(* remove_locked, for every id of a set: the loops of prune_locked and      *)
(* start call it again and again.                                          *)
remove_locked(st, ids) ==
  LET out == ids \cap DOMAIN st.sessions
      Left(scope) == st.by_scope[scope] \ {Entry(st.sessions, id) : id \in {i \in out : Scope(st.sessions[i]) = scope}}
  IN [sessions |-> [id \in DOMAIN st.sessions \ out |-> st.sessions[id]],
      by_expiry |-> st.by_expiry \ {Entry(st.sessions, id) : id \in out},
      by_scope |-> [scope \in {s \in DOMAIN st.by_scope : Left(s) # {}} |-> Left(scope)]]

(* A loop that removes the first entry of an index while there are more     *)
(* than n leaves its last n.                                                *)
Newest(entries, n) == {e \in entries : Cardinality({f \in entries : f = e \/ Before(e, f)}) <= n}
EvictFrom(st, entries, n) == remove_locked(st, {e[2] : e \in entries \ Newest(entries, n)})

prune_locked(st, t) == remove_locked(st, {e[2] : e \in {f \in st.by_expiry : f[1] <= t}})
EvictScope(st, scope) == EvictFrom(st, ScopeOf(st, scope), MaxPerLogin - 1)
EvictOldest(st) == EvictFrom(st, st.by_expiry, MaxSessions - 1)

insert(st, session, id) ==
  LET entry == <<session.expires_at, id>> IN
  [sessions |-> [i \in DOMAIN st.sessions \cup {id} |-> IF i = id THEN session ELSE st.sessions[i]],
   by_expiry |-> st.by_expiry \cup {entry},
   by_scope |-> [scope \in DOMAIN st.by_scope \cup {Scope(session)} |->
                   IF scope = Scope(session) THEN ScopeOf(st, scope) \cup {entry} ELSE st.by_scope[scope]]]

start(session, id, t) ==
  insert(EvictOldest(EvictScope(prune_locked(store, t), Scope(session))), session, id)
----------------------------------------------------------------------------
(* A request begins.  seen: history, the tokens that were active at some    *)
(* time since; out: history, its session was signed out of before.          *)
Arrive(r, pc, id, credential) ==
  /\ requests[r].pc = "idle"
  /\ requests' = [requests EXCEPT ![r] =
       [pc |-> pc, now |-> now, seen |-> Active(registry), out |-> pc = "session" /\ id \in gone,
        id |-> id, credential |-> credential, session |-> None]]
  /\ last' = None
  /\ UNCHANGED <<registry, store, links, ticket, now, used, gone>>

(* It goes on with a session, or without. *)
Goto(r, pc, session) ==
  requests' = [requests EXCEPT ![r] = [@ EXCEPT !.pc = pc, !.session = session]] /\ last' = None

(* The request is answered: refused, or given something as the owner of a   *)
(* token.  What was given is remembered for one step: whether that token    *)
(* was active since the request began, whether its session was out, and     *)
(* the bytes of a file that were asked for and sent.                        *)
Answer(r, given) == requests' = [requests EXCEPT ![r] = Idle] /\ last' = given
Given(r, token, asked, sent) ==
  [active |-> token = AdminToken \/ token \in requests[r].seen,
   out |-> requests[r].out, asked |-> asked, sent |-> sent]
Give(r, token) == Answer(r, Given(r, token, {}, {}))
Refuse(r) == Answer(r, None)
----------------------------------------------------------------------------
(* The host a request asked for (behind a trusted proxy, what the proxy says, *)
(* unless that is a list) and the site of the page that made it, if it says:  *)
(* a script of another site's page carries the cookie too.                    *)
Hosts == {"here", "elsewhere", "invalid"}
Headers == [trusted : BOOLEAN, forwarded : {"none", "list"} \cup Hosts, host : Hosts, origin : {"none"} \cup Hosts]
portal_request_host(h) == IF h.trusted /\ h.forwarded \notin {"none", "list"} THEN h.forwarded ELSE h.host
same_origin_portal_request(h) == h.origin = "none" \/ (h.origin # "invalid" /\ h.origin = portal_request_host(h))
client_access_origin(host) == host # "invalid"

(* What the headers of a request may say: whether it is from one of our own *)
(* pages, whether it has a host, and the hosts that our pages are on.       *)
FromOurPages == {same_origin_portal_request(h) : h \in Headers}
HasHost == {client_access_origin(portal_request_host(h)) : h \in Headers}
OurHosts == {host \in {portal_request_host(h) : h \in {g \in Headers : same_origin_portal_request(g)}} : client_access_origin(host)}

(* sign_in and redeem_client_access: forms that are refused before the rate *)
(* limit is asked are no requests here.  A link opens for the origin it was *)
(* made for, here, and then it names the client and the token.              *)
SignIn(r) ==
  \E credential \in {tok \in Tokens : tok.number <= registry[tok.client].token} \cup {AdminToken} :
    Arrive(r, "reserve", 0, credential)

open_client_access(link, host) == IF host = "here" THEN link ELSE None
Redeem(r) ==
  \E link \in links, host \in OurHosts : Arrive(r, "reserve", 0, open_client_access(link, host))

(* reserve_authentication, when the rate limit grants no reservation. *)
TooMany(r) ==
  /\ requests[r].pc = "reserve"
  /\ Refuse(r)
  /\ UNCHANGED <<registry, store, links, ticket, now, used, gone>>

(* client_session, and PortalSession::admin for the administrator's token.  *)
client_session(tok, t) == [who |-> tok.client, token |-> tok, expires_at |-> t + SessionTtl]
Authenticate(r) ==
  LET credential == requests[r].credential IN
  /\ requests[r].pc = "reserve"
  /\ IF credential = AdminToken \/ portal_client_active(credential)
     THEN Goto(r, "start", client_session(credential, requests[r].now))
     ELSE Refuse(r)
  /\ UNCHANGED <<registry, store, links, ticket, now, used, gone>>

(* start_session: the cookie names the new id; no randomness, no session.   *)
StartSession(r) ==
  /\ requests[r].pc = "start"
  /\ \E id \in Ids \ used :
       /\ store' = start(requests[r].session, id, requests[r].now)
       /\ used' = used \cup {id}
  /\ Give(r, requests[r].session.token)
  /\ UNCHANGED <<registry, links, ticket, now, gone>>

NoSession(r) ==
  /\ requests[r].pc = "start"
  /\ Refuse(r)
  /\ UNCHANGED <<registry, store, links, ticket, now, used, gone>>
----------------------------------------------------------------------------
(* Pages: the session of the cookie is looked up, and a client's account is *)
(* looked at before the session counts.  Which page it is makes a           *)
(* difference only then.                                                    *)
Ask(r) == \E id \in used : Arrive(r, "session", id, None)

Session(r) ==
  LET id == requests[r].id
      found == id \in DOMAIN store.sessions
      expired == found /\ store.sessions[id].expires_at <= requests[r].now
  IN /\ requests[r].pc = "session"
     /\ store' = IF expired THEN remove_locked(store, {id}) ELSE store
     /\ IF found /\ ~expired
        THEN Goto(r, IF store.sessions[id].who = Admin THEN "page" ELSE "check", store.sessions[id])
        ELSE Goto(r, "page", None)
     /\ UNCHANGED <<registry, links, ticket, now, used, gone>>

(* A mutant: the account is believed to be as it was at the sign-in. *)
CheckNothing(r) ==
  /\ requests[r].pc = "check"
  /\ Goto(r, "page", requests[r].session)
  /\ UNCHANGED <<registry, store, links, ticket, now, used, gone>>

Check(r) ==
  /\ requests[r].pc = "check"
  /\ Goto(r, IF portal_client_active(requests[r].session.token) THEN "page" ELSE "remove", requests[r].session)
  /\ UNCHANGED <<registry, store, links, ticket, now, used, gone>>

RemoveRevoked(r) ==
  /\ requests[r].pc = "remove"
  /\ store' = remove_locked(store, {requests[r].id})
  /\ Goto(r, "page", None)
  /\ UNCHANGED <<registry, links, ticket, now, used, gone>>

IsAdmin(session) == session # None /\ session.who = Admin
valid_download_ticket(t) == t <= ticket

(* serve_downloads_page: a client is shown its own token, unless the host   *)
(* of the request is none; anyone signed in is given tickets for the files. *)
DownloadsPage(r) ==
  LET session == requests[r].session
      until == requests[r].now + TicketTtl
  IN /\ requests[r].pc = "page"
     /\ \E get \in BOOLEAN, host \in HasHost :
          IF session = None \/ (session.who # Admin /\ get /\ ~host)
          THEN Refuse(r) /\ UNCHANGED ticket
          ELSE /\ Give(r, session.token)
               /\ ticket' = IF until > ticket THEN until ELSE ticket
     /\ UNCHANGED <<registry, store, links, now, used, gone>>

(* serve_admin_page, and what the API only reads. *)
AdminPage(r) ==
  /\ requests[r].pc = "page"
  /\ IF IsAdmin(requests[r].session) THEN Give(r, AdminToken) ELSE Refuse(r)
  /\ UNCHANGED <<registry, store, links, ticket, now, used, gone>>
----------------------------------------------------------------------------
(* The Range header: none, a list of ranges, one that does not parse, the   *)
(* bytes from the first to the last, those from the first on, or the last   *)
(* so many.  NoBytes: the range names nothing of the file.                  *)
Least(a, b) == IF a < b THEN a ELSE b
Ranges == [kind : {"none", "list", "bad", "closed", "open", "suffix"}, first : Offsets, last : Offsets]
NoBytes == [some |-> FALSE, first |-> 0, last |-> 0]
Bytes(first, end) == [some |-> TRUE, first |-> first, last |-> end]
parse_single_range(range, size) ==
  LET end == IF range.kind = "open" THEN size - 1 ELSE Least(range.last, size - 1) IN
  IF size = 0 \/ range.kind = "bad" THEN NoBytes
  ELSE IF range.kind = "suffix"
       THEN IF range.last = 0 THEN NoBytes ELSE Bytes(size - Least(range.last, size), size - 1)
       ELSE IF range.first < size /\ range.first <= end THEN Bytes(range.first, end) ELSE NoBytes

(* DownloadService::handle: the bytes it sends.  fresh: if-modified-since   *)
(* and if-unmodified-since ask for the file; same: if-range, if given, is   *)
(* of this file, so that the range counts.                                  *)
handle(range, size, fresh, same) ==
  LET part == parse_single_range(range, size)
      use_range == same /\ range.kind \notin {"none", "list"}
      first == IF use_range THEN part.first ELSE 0
      end == IF use_range THEN part.last ELSE IF size = 0 THEN 0 ELSE size - 1
      length == IF size = 0 THEN 0 ELSE end - first + 1
  IN IF ~fresh \/ (use_range /\ ~part.some) THEN {} ELSE first..(first + length - 1)

(* The bytes that are asked for: those of the range, or of the whole file.  *)
Asked(range, size, fresh, same) ==
  {i \in 0..(size - 1) :
     fresh /\ (~same \/ CASE range.kind \in {"none", "list"} -> TRUE
                          [] range.kind = "bad" -> FALSE
                          [] range.kind = "suffix" -> i >= size - range.last
                          [] range.kind = "open" -> i >= range.first
                          [] OTHER -> range.first <= i /\ i <= range.last)}

(* What is asked of a file, and what is sent of it. *)
Transfers ==
  {[asked |-> Asked(range, size, fresh, same), sent |-> handle(range, size, fresh, same)] :
     range \in Ranges, size \in Sizes, fresh \in BOOLEAN, same \in BOOLEAN}

(* serve_download: a session opens it, or else a ticket. *)
Download(r) ==
  LET session == requests[r].session IN
  /\ requests[r].pc = "page"
  /\ IF session = None /\ ~valid_download_ticket(requests[r].now) THEN Refuse(r)
     ELSE \E file \in Transfers :
            Answer(r, IF session = None
                      THEN [active |-> TRUE, out |-> FALSE, asked |-> file.asked, sent |-> file.sent]
                      ELSE Given(r, session.token, file.asked, file.sent))
  /\ UNCHANGED <<registry, store, links, ticket, now, used, gone>>
----------------------------------------------------------------------------
(* serve_admin_api: only an administrator's session reaches the API, a      *)
(* change from another site's page is refused whoever makes it, and so is   *)
(* one whose body, client or token does not do.                             *)
Refused(r) ==
  /\ requests[r].pc = "page"
  /\ \E ours \in FromOurPages, valid \in BOOLEAN : ~IsAdmin(requests[r].session) \/ ~ours \/ ~valid
  /\ Refuse(r)
  /\ UNCHANGED <<registry, store, links, ticket, now, used, gone>>

(* create_client, update_client, delete_client, rotate_client_token: what   *)
(* they may make of the accounts.                                           *)
Changes(c) ==
  IF registry[c] = Absent THEN {[registry EXCEPT ![c] = [known |-> TRUE, enabled |-> TRUE, token |-> 1]]}
  ELSE IF ~registry[c].known THEN {}
  ELSE {[registry EXCEPT ![c] = [known |-> FALSE, enabled |-> FALSE, token |-> MaxTokens]]}
       \cup {[registry EXCEPT ![c] = [@ EXCEPT !.enabled = on]] : on \in BOOLEAN}
       \cup {[registry EXCEPT ![c] = [@ EXCEPT !.token = n]] : n \in {k \in 1..MaxTokens : k = registry[c].token + 1}}

Noticed(reqs, reg) == [r \in Requests |-> IF reqs[r].pc = "idle" THEN reqs[r]
                                           ELSE [reqs[r] EXCEPT !.seen = @ \cup Active(reg)]]

(* create_client_access makes a link for a token that is active. *)
MakeLink(r) ==
  /\ requests[r].pc = "page" /\ IsAdmin(requests[r].session)
  /\ \E ours \in FromOurPages : ours
  /\ Give(r, AdminToken)
  /\ \E tok \in Active(registry) : links' = links \cup {tok}
  /\ UNCHANGED <<registry, store, ticket, now, used, gone>>

(* The other changes of the API. *)
Change(r) ==
  /\ requests[r].pc = "page" /\ IsAdmin(requests[r].session)
  /\ \E ours \in FromOurPages : ours
  /\ \E c \in Clients : registry' \in Changes(c)
  /\ requests' = Noticed([requests EXCEPT ![r] = Idle], registry')
  /\ last' = Given(r, AdminToken, {}, {})
  /\ UNCHANGED <<store, links, ticket, now, used, gone>>

(* The administrator's listener, with the token in the request. *)
ChangeByToken ==
  /\ \E c \in Clients : registry' \in Changes(c)
  /\ requests' = Noticed(requests, registry')
  /\ last' = None
  /\ UNCHANGED <<store, links, ticket, now, used, gone>>

SignOut ==
  \E id \in used :
    /\ store' = remove_locked(store, {id})
    /\ gone' = gone \cup {id}
    /\ last' = None
    /\ UNCHANGED <<registry, links, ticket, requests, now, used>>

Tick ==
  /\ now < MaxTime /\ now' = now + 1 /\ last' = None
  /\ UNCHANGED <<registry, store, links, ticket, requests, used, gone>>
----------------------------------------------------------------------------
PortalNext ==
  \/ \E r \in Requests : \/ SignIn(r) \/ Redeem(r) \/ TooMany(r) \/ Authenticate(r) \/ StartSession(r) \/ NoSession(r)
                         \/ Ask(r) \/ Session(r) \/ Check(r) \/ RemoveRevoked(r)
                         \/ DownloadsPage(r) \/ AdminPage(r) \/ Download(r) \/ Refused(r)
                         \/ MakeLink(r) \/ Change(r)
  \/ ChangeByToken \/ SignOut \/ Tick

PortalSpec == PortalInit /\ [][PortalNext]_portal_vars
----------------------------------------------------------------------------
(* A token that was rotated away, or whose account was disabled or deleted, *)
(* opens nothing to a request made after that, by a session started before  *)
(* or by an access link, though the sign-in looked at the account long      *)
(* before; and a session signed out of opens nothing to a later request.    *)
(* (Download tickets that were given out go on until they expire.)          *)
RevokedIsOut ==
  last # None => last.active /\ ~last.out

(* A download is, byte for byte, what the range asked of the file. *)
RangesAreExact ==
  last # None => last.sent = last.asked

(* The three indexes of the store agree after any sequence of sign-ins,     *)
(* sign-outs, expiries and evictions, and neither bound is exceeded.        *)
SessionsAreIndexed ==
  /\ store.by_expiry = {Entry(store.sessions, id) : id \in DOMAIN store.sessions}
  /\ DOMAIN store.by_scope = {Scope(store.sessions[id]) : id \in DOMAIN store.sessions}
  /\ \A scope \in DOMAIN store.by_scope :
       /\ store.by_scope[scope] = {Entry(store.sessions, id) : id \in
                                     {i \in DOMAIN store.sessions : Scope(store.sessions[i]) = scope}}
       /\ Cardinality(store.by_scope[scope]) <= MaxPerLogin
  /\ Cardinality(DOMAIN store.sessions) <= MaxSessions

(* The portal gives nothing to who is signed out, sends of a file what was  *)
(* asked for, and its store is sound.                                       *)
PortalIsSound == RevokedIsOut /\ RangesAreExact /\ SessionsAreIndexed
=============================================================================
