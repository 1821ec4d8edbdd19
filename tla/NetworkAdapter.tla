---------------------------- MODULE NetworkAdapter ----------------------------
(***************************************************************************)
(* network.fetch (network_adapter.py): prepare checks the URL, the method  *)
(* and the target of an intent against the scope and resolves the host;    *)
(* commit resolves it again, checks and pins one address, makes one        *)
(* request that follows no redirect, reads the body up to the cap and      *)
(* keeps it in the scope's sandbox.  The network is the environment: every *)
(* resolution may give another answer, every request may fail or be        *)
(* answered in any way, at any point.                                      *)
(*                                                                         *)
(* A URL is a record of its parts; a path, and a target, is the sequence   *)
(* of its pieces.  Lengths are in units of one read of the body.           *)
(***************************************************************************)
EXTENDS Naturals, Sequences

LOCAL INSTANCE SequencesExt  \* IsPrefix

CONSTANTS Fetchers,         \* callers of the adapter, each doing one thing at a time
          Addresses,
          UnsafeAddresses,  \* private, loopback, link-local, reserved, ...
          Resolutions,      \* what resolving a host may give, in order
          MediaTypes,       \* media types of responses
          NoValue,          \* None: no port, no header, no method
          Invalid,          \* a URL, or a port of one, that does not parse
          Unencodable,      \* hosts, and pieces of paths, that no encoder takes:
                            \* a label too long for idna, a letter outside ASCII
          ProxyPort,        \* for each scheme, the port of the proxy that the
                            \* environment names for it (http_proxy), or NoValue
          CallIds,          \* one for each call of the adapter that may be made
          NetScopes, NetIntents   \* the scopes and intents calls are for

ASSUME NetworkAssumption ==
  /\ UnsafeAddresses \subseteq Addresses
  /\ Resolutions \subseteq Seq(Addresses)
  /\ NoValue \notin UNION {s.network_allowed_content_types : s \in NetScopes}
  /\ \A s \in NetScopes : s.max_bytes \in Nat
  /\ DOMAIN ProxyPort = {"http", "https"}

VARIABLES phase,   \* how far each fetcher is
          fetch,   \* its request to the adapter: id, scope, intent
          pinned,  \* the address commit connects to
          reply,   \* media type and bytes received so far of the response
          reason,  \* why it failed, "none" if it has not, "raises" if an
                  \* exception that it does not turn into a rejection ended it
          wire,    \* every request that was sent
          store    \* the responses in .fermata-network, one for a target

netVars == <<phase, fetch, pinned, reply, reason, wire, store>>

NoReply == [media |-> NoValue, bytes |-> 0]

-----------------------------------------------------------------------------
\* _network_store_path: no absolute, empty, "." or ".." component.
TargetIsSafe(target) ==
  target # <<>> /\ \A i \in DOMAIN target : target[i] \notin {"", ".", ".."}

\* _parse_fetch_url.
UrlReason(url) ==
  IF url = Invalid THEN "network_url_invalid"
  ELSE IF url.scheme \notin {"http", "https"} THEN "network_scheme_unsupported"
  ELSE IF url.userinfo \/ url.host = NoValue \/ url.port = Invalid
       THEN "network_url_invalid"
  ELSE "none"

EffectivePort(url) ==
  IF url.port # NoValue THEN url.port ELSE IF url.scheme = "https" THEN 443 ELSE 80

\* One entry of network_allow against a URL that parsed.
EntryMatches(url, entry) ==
  /\ entry # Invalid
  /\ entry.scheme = url.scheme /\ entry.host = url.host
  /\ entry.port # Invalid
  /\ EffectivePort(entry) = EffectivePort(url)
  /\ IsPrefix(entry.path, url.path)

\* An entry that does not parse, or whose port does not when it is compared,
\* raises a ValueError that prepare does not catch.
EntryRaises(url, entry) ==
  \/ entry = Invalid
  \/ entry.scheme = url.scheme /\ entry.host = url.host /\ entry.port = Invalid

\* _url_in_allowlist: the entries in order, up to the first that decides.
AllowlistVerdict(url, allow) ==
  LET Decides(i) == EntryMatches(url, allow[i]) \/ EntryRaises(url, allow[i])
      first == CHOOSE i \in DOMAIN allow :
                 Decides(i) /\ \A j \in 1..(i - 1) : ~Decides(j)
  IN  IF \A i \in DOMAIN allow : ~Decides(i) THEN "network_url_not_in_allowlist"
      ELSE IF EntryRaises(url, allow[first]) THEN "raises"
      ELSE "none"

\* What encoding a host for the resolver, or a path for the request, comes to:
\* a UnicodeError is a ValueError, and RejectionReason(str(exc)) raises again.
HostRaises(url) == url.host \in Unencodable
PathRaises(url) == \E i \in DOMAIN url.path : url.path[i] \in Unencodable

SomeUnsafe(resolved) == \E i \in DOMAIN resolved : resolved[i] \in UnsafeAddresses

\* NetworkFetchAdapter.prepare, in its order, for what the host resolves to.
PrepareReason(scope, intent, resolved) ==
  LET url == intent.input.url
      verdict == AllowlistVerdict(url, scope.network_allow)
  IN  IF UrlReason(url) # "none" THEN UrlReason(url)
      ELSE IF intent.input.method \notin {NoValue, "GET"} THEN "network_method_not_allowed"
      ELSE IF verdict # "none" THEN verdict
      ELSE IF ~scope.allow_private_network /\ HostRaises(url) THEN "raises"
      ELSE IF ~scope.allow_private_network /\ (resolved = <<>> \/ SomeUnsafe(resolved))
           THEN "network_host_is_private"
      ELSE IF ~TargetIsSafe(intent.target) THEN "path_outside_scope"
      ELSE "none"

\* _pinned_safe_ip: all addresses of one resolution are checked, the first used.
PinReason(scope, url, resolved) ==
  IF HostRaises(url) THEN "raises"
  ELSE IF resolved = <<>> THEN "network_request_failed"
  ELSE IF ~scope.allow_private_network /\ SomeUnsafe(resolved)
       THEN "network_host_is_private"
  ELSE "none"

\* The check of the media type when the scope asks for one.
MediaIsAllowed(scope, media) ==
  scope.network_allowed_content_types = {} \/ media \in scope.network_allowed_content_types

-----------------------------------------------------------------------------
NetInit == /\ phase = [f \in Fetchers |-> "idle"]
           /\ fetch = [f \in Fetchers |-> NoValue]
           /\ pinned = [f \in Fetchers |-> NoValue]
           /\ reply = [f \in Fetchers |-> NoReply]
           /\ reason = [f \in Fetchers |-> "none"]
           /\ wire = {}
           /\ store = {}

To(f, p) == phase' = [phase EXCEPT ![f] = p]

Fails(f, why) == To(f, "failed") /\ reason' = [reason EXCEPT ![f] = why]

FetchUrl(f) == fetch[f].intent.input.url

\* The pinned connection takes its address from commit, but its port from the
\* URL, or from the proxy that build_opener's ProxyHandler has put in its place.
PortOf(url) ==
  IF ProxyPort[url.scheme] # NoValue THEN ProxyPort[url.scheme] ELSE EffectivePort(url)

\* What one request puts on the wire.
Sent(f, address) ==
  [id |-> fetch[f].id, scope |-> fetch[f].scope, intent |-> fetch[f].intent,
   address |-> address, port |-> PortOf(FetchUrl(f))]

\* The file a response is kept in.
File(f) == [target |-> fetch[f].intent.target, id |-> fetch[f].id,
            media |-> reply[f].media, bytes |-> reply[f].bytes]

\* The call is over, whatever became of it, and leaves only what it sent and kept.
Leave(f) == /\ To(f, "idle")
            /\ fetch' = [fetch EXCEPT ![f] = NoValue]
            /\ pinned' = [pinned EXCEPT ![f] = NoValue]
            /\ reply' = [reply EXCEPT ![f] = NoReply]
            /\ reason' = [reason EXCEPT ![f] = "none"]
            /\ UNCHANGED <<wire, store>>

-----------------------------------------------------------------------------
(* Seeded faults: wrong versions of the actions below, not used.           *)

\* The name is resolved once more to connect to it.
PinRebinding(f) ==
  /\ phase[f] = "prepared"
  /\ \E resolved, again \in Resolutions :
       LET why == PinReason(fetch[f].scope, FetchUrl(f), resolved)
       IN  IF why # "none" \/ again = <<>> THEN Fails(f, why) /\ UNCHANGED pinned
           ELSE /\ To(f, "pinned")
                /\ pinned' = [pinned EXCEPT ![f] = again[1]]
                /\ UNCHANGED reason
  /\ UNCHANGED <<fetch, reply, wire, store>>

\* The cap is on the declared length only.
ReadUncapped(f) ==
  /\ phase[f] = "reading"
  /\ reply[f].bytes <= fetch[f].scope.max_bytes
  /\ reply' = [reply EXCEPT ![f].bytes = @ + 1]
  /\ UNCHANGED <<phase, fetch, pinned, reason, wire, store>>

\* A response that could not be kept counts as kept.
PersistFailsSilently(f) ==
  /\ phase[f] = "fetched"
  /\ To(f, "done")
  /\ UNCHANGED <<fetch, pinned, reply, reason, wire, store>>

-----------------------------------------------------------------------------
\* prepare, for a call of its own.
Prepare(f, call) ==
  /\ phase[f] = "idle"
  /\ \E resolved \in Resolutions :
       LET why == PrepareReason(call.scope, call.intent, resolved)
       IN  IF why # "none" THEN Fails(f, why)
           ELSE To(f, "prepared") /\ UNCHANGED reason
  /\ fetch' = [fetch EXCEPT ![f] = call]
  /\ UNCHANGED <<pinned, reply, wire, store>>

\* The runtime goes no further: approval, budget, custody or a dry run.
Stop(f) == phase[f] = "prepared" /\ Leave(f)

\* commit resolves the host a second time and pins what it checked.
Pin(f) ==
  /\ phase[f] = "prepared"
  /\ \E resolved \in Resolutions :
       LET why == PinReason(fetch[f].scope, FetchUrl(f), resolved)
       IN  IF why # "none" THEN Fails(f, why) /\ UNCHANGED pinned
           ELSE /\ To(f, "pinned")
                /\ pinned' = [pinned EXCEPT ![f] = resolved[1]]
                /\ UNCHANGED reason
  /\ UNCHANGED <<fetch, reply, wire, store>>

\* The request line has no bytes, and nothing is sent.
SendRaises(f) ==
  /\ phase[f] = "pinned"
  /\ PathRaises(FetchUrl(f))
  /\ Fails(f, "raises")
  /\ UNCHANGED <<fetch, pinned, reply, wire, store>>

\* No connection, or none that the named host authenticates.
ConnectFails(f) ==
  /\ phase[f] = "pinned"
  /\ ~PathRaises(FetchUrl(f))
  /\ Fails(f, "network_request_failed")
  /\ UNCHANGED <<fetch, pinned, reply, wire, store>>

\* One GET goes to the pinned address and its headers come back: a redirect or
\* another error status, too long a declared length, one of digits that int()
\* does not take, a media type the scope does not allow, or a body to be read.
Request(f) ==
  /\ phase[f] = "pinned"
  /\ ~PathRaises(FetchUrl(f))
  /\ wire' = wire \cup {Sent(f, pinned[f])}
  /\ \/ \E why \in {"network_redirect_not_allowed", "network_request_failed",
                    "network_response_too_large", "raises"} :
          Fails(f, why) /\ UNCHANGED reply
     \/ \E media \in MediaTypes \cup {NoValue} :
          IF MediaIsAllowed(fetch[f].scope, media)
          THEN /\ To(f, "reading")
               /\ reply' = [reply EXCEPT ![f] = [media |-> media, bytes |-> 0]]
               /\ UNCHANGED reason
          ELSE Fails(f, "network_content_type_not_allowed") /\ UNCHANGED reply
  /\ UNCHANGED <<fetch, pinned, store>>

\* One read of the body, which is given up when it grows past the cap.
Read(f) ==
  /\ phase[f] = "reading"
  /\ reply' = [reply EXCEPT ![f].bytes = @ + 1]
  /\ IF reply[f].bytes + 1 > fetch[f].scope.max_bytes
     THEN Fails(f, "network_response_too_large")
     ELSE UNCHANGED <<phase, reason>>
  /\ UNCHANGED <<fetch, pinned, wire, store>>

ReadFails(f) ==
  /\ phase[f] = "reading"
  /\ Fails(f, "network_request_failed")
  /\ UNCHANGED <<fetch, pinned, reply, wire, store>>

\* The peer has nothing more to send; also when it has sent too little.
EndOfBody(f) ==
  /\ phase[f] = "reading"
  /\ To(f, "fetched")
  /\ UNCHANGED <<fetch, pinned, reply, reason, wire, store>>

\* anchored_atomic_write puts the body in the place of an earlier one.
Persist(f) ==
  /\ phase[f] = "fetched"
  /\ To(f, "done")
  /\ store' = {s \in store : s.target # fetch[f].intent.target} \cup {File(f)}
  /\ UNCHANGED <<fetch, pinned, reply, reason, wire>>

PersistFails(f) ==
  /\ phase[f] = "fetched"
  /\ Fails(f, "adapter_commit_failed")
  /\ UNCHANGED <<fetch, pinned, reply, wire, store>>

\* The evidence or the rejection goes back to the runtime.
Report(f) == phase[f] \in {"failed", "done"} /\ Leave(f)

\* What commit does by itself once it is called.
Commit(f) == \/ Pin(f) \/ SendRaises(f) \/ ConnectFails(f) \/ Request(f)
             \/ Read(f) \/ ReadFails(f) \/ EndOfBody(f) \/ Persist(f) \/ PersistFails(f)

\* A call nobody made before.
Fresh(id) == /\ \A g \in Fetchers : phase[g] # "idle" => fetch[g].id # id
             /\ \A w \in wire : w.id # id
             /\ \A s \in store : s.id # id

Call(f) == \E id \in CallIds, scope \in NetScopes, intent \in NetIntents :
             Fresh(id) /\ Prepare(f, [id |-> id, scope |-> scope, intent |-> intent])

\* The fetcher dies, at any point.
Die(f) == phase[f] # "idle" /\ Leave(f)

NetNext == \E f \in Fetchers : Call(f) \/ Stop(f) \/ Commit(f) \/ Report(f) \/ Die(f)

NetSpec == NetInit /\ [][NetNext]_netVars

-----------------------------------------------------------------------------
ProxyPorts == {ProxyPort[scheme] : scheme \in DOMAIN ProxyPort} \ {NoValue}

\* Whatever names resolve to, and however often they change between prepare and
\* commit: every request goes to a URL the allowlist of its scope admits, at an
\* address its scope lets it reach and the port of the URL or of a proxy, and no
\* call sends a second one.
ConnectsToChecked ==
  /\ \A w \in wire : /\ UrlReason(w.intent.input.url) = "none"
                     /\ AllowlistVerdict(w.intent.input.url, w.scope.network_allow) = "none"
                     /\ w.address \in UnsafeAddresses => w.scope.allow_private_network
                     /\ w.port \in {EffectivePort(w.intent.input.url)} \cup ProxyPorts
  /\ \A w, v \in wire : w.id = v.id => w = v

\* What is kept is the answer to a request that was made for that target, no
\* longer and of no other type than the scope of that request allows, however
\* the peer declared, sent or cut it; and a target has one answer.
StoredWithinScope ==
  /\ \A s \in store : \E w \in wire :
       /\ w.id = s.id /\ w.intent.target = s.target /\ TargetIsSafe(s.target)
       /\ s.bytes <= w.scope.max_bytes
       /\ MediaIsAllowed(w.scope, s.media)
  /\ \A s, t \in store : s.target = t.target => s = t
=============================================================================
