------------------------- MODULE NetworkAdapterProofs -------------------------
(***************************************************************************)
(* Whatever names resolve to and peers answer, network.fetch connects only *)
(* to what it checked, and keeps only what the scope of the request allows. *)
(***************************************************************************)
EXTENDS NetworkAdapter, TLAPS

Phases == {"idle", "prepared", "pinned", "reading", "fetched", "done", "failed"}

CallRecords == [id : CallIds, scope : NetScopes, intent : NetIntents]

Active(f) == phase[f] # "idle"

NetTypes ==
  /\ phase \in [Fetchers -> Phases]
  /\ fetch \in [Fetchers -> CallRecords \cup {NoValue}]
  /\ pinned \in [Fetchers -> Addresses \cup {NoValue}]
  /\ reply \in [Fetchers -> [media : MediaTypes \cup {NoValue}, bytes : Nat]]
  /\ DOMAIN reason = Fetchers
  /\ \A f \in Fetchers : Active(f) => fetch[f] \in CallRecords

\* A running call has an id of its own, and before it sends its request nothing
\* on the wire has that id.
CallsApart ==
  /\ \A f, g \in Fetchers : Active(f) /\ Active(g) /\ fetch[f].id = fetch[g].id => f = g
  /\ \A f \in Fetchers : phase[f] \in {"prepared", "pinned"} =>
       \A w \in wire : w.id # fetch[f].id

UrlIsChecked(scope, intent) ==
  /\ UrlReason(intent.input.url) = "none"
  /\ AllowlistVerdict(intent.input.url, scope.network_allow) = "none"

\* What prepare checked, of the very scope and intent commit works with.
Checked ==
  \A f \in Fetchers : phase[f] \in {"prepared", "pinned", "reading", "fetched"} =>
    /\ UrlIsChecked(fetch[f].scope, fetch[f].intent)
    /\ TargetIsSafe(fetch[f].intent.target)

PinnedIsSafe ==
  \A f \in Fetchers : phase[f] = "pinned" =>
    (pinned[f] \in UnsafeAddresses => fetch[f].scope.allow_private_network)

\* A response that is being read is the answer to the request of its call.
Answered ==
  \A f \in Fetchers : phase[f] \in {"reading", "fetched"} =>
    /\ \E w \in wire : /\ w.id = fetch[f].id /\ w.scope = fetch[f].scope
                       /\ w.intent = fetch[f].intent
    /\ reply[f].bytes <= fetch[f].scope.max_bytes
    /\ MediaIsAllowed(fetch[f].scope, reply[f].media)

NetInvariant == /\ NetTypes /\ CallsApart /\ Checked /\ PinnedIsSafe /\ Answered
                /\ ConnectsToChecked /\ StoredWithinScope

LEMMA NetInitInvariant == NetInit => NetInvariant
  BY DEF NetInit, NetInvariant, NetTypes, CallsApart, Checked, PinnedIsSafe, Answered,
         ConnectsToChecked, StoredWithinScope, Phases, Active, NoReply

\* What both resolutions establish when they let the call go on.
LEMMA PrepareChecks ==
  ASSUME NEW scope, NEW intent, NEW resolved, PrepareReason(scope, intent, resolved) = "none"
  PROVE  UrlIsChecked(scope, intent) /\ TargetIsSafe(intent.target)
  BY DEF PrepareReason, UrlIsChecked

LEMMA PinChecks ==
  ASSUME NEW scope, NEW url, NEW resolved \in Resolutions,
         PinReason(scope, url, resolved) = "none"
  PROVE  /\ resolved[1] \in Addresses
         /\ resolved[1] \in UnsafeAddresses => scope.allow_private_network
<1>1. resolved \in Seq(Addresses) /\ resolved # <<>>
  BY NetworkAssumption DEF PinReason
<1>2. 1 \in DOMAIN resolved /\ resolved[1] \in Addresses
  BY <1>1
<1> QED
  BY <1>2 DEF PinReason, SomeUnsafe

\* A URL that prepare lets through is connected to at its own port or a proxy's.
LEMMA PortIsKnown ==
  ASSUME NEW url, UrlReason(url) = "none"
  PROVE  PortOf(url) \in {EffectivePort(url)} \cup ProxyPorts
<1>1. url.scheme \in DOMAIN ProxyPort
  BY NetworkAssumption DEF UrlReason
<1> QED
  BY <1>1 DEF PortOf, ProxyPorts

-----------------------------------------------------------------------------
(* Each action keeps the invariant.  Those that send and keep nothing leave *)
(* the two properties alone.                                                *)

LEMMA PrepareKeeps ==
  ASSUME NetInvariant, NEW f \in Fetchers, NEW call \in CallRecords,
         Fresh(call.id), Prepare(f, call)
  PROVE  NetInvariant'
<1>1. /\ fetch' = [fetch EXCEPT ![f] = call]
      /\ UNCHANGED <<pinned, reply, wire, store>>
      /\ phase[f] = "idle"
  BY DEF Prepare
<1>2. PICK resolved \in Resolutions :
        IF PrepareReason(call.scope, call.intent, resolved) # "none"
        THEN Fails(f, PrepareReason(call.scope, call.intent, resolved))
        ELSE To(f, "prepared") /\ UNCHANGED reason
  BY DEF Prepare
<1>3. \/ phase' = [phase EXCEPT ![f] = "failed"]
      \/ /\ phase' = [phase EXCEPT ![f] = "prepared"]
         /\ UrlIsChecked(call.scope, call.intent) /\ TargetIsSafe(call.intent.target)
  BY <1>2, PrepareChecks DEF Fails, To
<1>4. DOMAIN reason' = Fetchers
  BY <1>2 DEF Fails, NetInvariant, NetTypes
<1>5. NetTypes'
  BY <1>1, <1>3, <1>4 DEF NetInvariant, NetTypes, Phases, Active
<1>6. CallsApart'
  BY <1>1, <1>3 DEF NetInvariant, NetTypes, CallsApart, Fresh, Active, CallRecords, Phases
<1>7. Checked'
  BY <1>1, <1>3 DEF NetInvariant, NetTypes, Checked, Phases
<1>8. PinnedIsSafe' /\ Answered'
  BY <1>1, <1>3 DEF NetInvariant, NetTypes, PinnedIsSafe, Answered, Phases
<1>9. ConnectsToChecked' /\ StoredWithinScope'
  BY <1>1 DEF NetInvariant, ConnectsToChecked, StoredWithinScope
<1> QED
  BY <1>5, <1>6, <1>7, <1>8, <1>9 DEF NetInvariant

LEMMA LeaveKeeps ==
  ASSUME NetInvariant, NEW f \in Fetchers, Leave(f)
  PROVE  NetInvariant'
<1> USE DEF NetInvariant, Leave, To, NoReply
<1>1. NetTypes'
  BY DEF NetTypes, Phases, Active
<1>2. CallsApart' /\ Checked'
  BY DEF NetTypes, CallsApart, Checked, Active
<1>3. PinnedIsSafe' /\ Answered'
  BY DEF NetTypes, PinnedIsSafe, Answered
<1>4. ConnectsToChecked' /\ StoredWithinScope'
  BY DEF ConnectsToChecked, StoredWithinScope
<1> QED
  BY <1>1, <1>2, <1>3, <1>4

\* A call that fails on its way keeps what is sent and kept as it is.
LEMMA FailsKeeps ==
  ASSUME NetInvariant, NEW f \in Fetchers, NEW why, Active(f), Fails(f, why),
         UNCHANGED <<fetch, pinned, wire, store>>,
         reply' \in [Fetchers -> [media : MediaTypes \cup {NoValue}, bytes : Nat]],
         \A g \in Fetchers \ {f} : reply'[g] = reply[g]
  PROVE  NetInvariant'
<1> USE DEF NetInvariant, Fails, To
<1>1. NetTypes'
  BY DEF NetTypes, Phases, Active
<1>2. CallsApart' /\ Checked'
  BY DEF NetTypes, CallsApart, Checked, Active
<1>3. PinnedIsSafe' /\ Answered'
  BY DEF NetTypes, PinnedIsSafe, Answered
<1>4. ConnectsToChecked' /\ StoredWithinScope'
  BY DEF ConnectsToChecked, StoredWithinScope
<1> QED
  BY <1>1, <1>2, <1>3, <1>4

LEMMA PinKeeps ==
  ASSUME NetInvariant, NEW f \in Fetchers, Pin(f)
  PROVE  NetInvariant'
<1>1. /\ phase[f] = "prepared"
      /\ UNCHANGED <<fetch, reply, wire, store>>
  BY DEF Pin
<1>2. PICK resolved \in Resolutions :
        IF PinReason(fetch[f].scope, FetchUrl(f), resolved) # "none"
        THEN Fails(f, PinReason(fetch[f].scope, FetchUrl(f), resolved)) /\ UNCHANGED pinned
        ELSE /\ To(f, "pinned")
             /\ pinned' = [pinned EXCEPT ![f] = resolved[1]]
             /\ UNCHANGED reason
  BY DEF Pin
<1>3. CASE PinReason(fetch[f].scope, FetchUrl(f), resolved) # "none"
  <2>1. reply' \in [Fetchers -> [media : MediaTypes \cup {NoValue}, bytes : Nat]]
    BY <1>1 DEF NetInvariant, NetTypes
  <2> QED
    BY <1>1, <1>2, <1>3, <2>1, FailsKeeps DEF Active
<1>4. CASE PinReason(fetch[f].scope, FetchUrl(f), resolved) = "none"
  <2>1. /\ phase' = [phase EXCEPT ![f] = "pinned"]
        /\ pinned' = [pinned EXCEPT ![f] = resolved[1]]
        /\ UNCHANGED reason
    BY <1>2, <1>4 DEF To
  <2>2. /\ resolved[1] \in Addresses
        /\ resolved[1] \in UnsafeAddresses => fetch[f].scope.allow_private_network
    BY <1>4, PinChecks
  <2>3. NetTypes'
    BY <1>1, <2>1, <2>2 DEF NetInvariant, NetTypes, Phases, Active
  <2>4. CallsApart' /\ Checked'
    BY <1>1, <2>1 DEF NetInvariant, NetTypes, CallsApart, Checked, Active
  <2>5. PinnedIsSafe' /\ Answered'
    BY <1>1, <2>1, <2>2 DEF NetInvariant, NetTypes, PinnedIsSafe, Answered
  <2>6. ConnectsToChecked' /\ StoredWithinScope'
    BY <1>1 DEF NetInvariant, ConnectsToChecked, StoredWithinScope
  <2> QED
    BY <2>3, <2>4, <2>5, <2>6 DEF NetInvariant
<1> QED
  BY <1>3, <1>4

\* The one action that adds to the wire.
LEMMA RequestKeeps ==
  ASSUME NetInvariant, NEW f \in Fetchers, Request(f)
  PROVE  NetInvariant'
<1> DEFINE sent == Sent(f, pinned[f])
<1>1. /\ phase[f] = "pinned"
      /\ wire' = wire \cup {sent}
      /\ UNCHANGED <<fetch, pinned, store>>
  BY DEF Request
<1>2. /\ sent.id = fetch[f].id /\ sent.scope = fetch[f].scope
      /\ sent.intent = fetch[f].intent /\ sent.address = pinned[f]
      /\ sent.port = PortOf(sent.intent.input.url)
  BY DEF Sent, FetchUrl
<1> HIDE DEF sent
<1>3. \/ /\ phase' = [phase EXCEPT ![f] = "failed"]
         /\ UNCHANGED reply
      \/ \E media \in MediaTypes \cup {NoValue} :
           /\ MediaIsAllowed(fetch[f].scope, media)
           /\ phase' = [phase EXCEPT ![f] = "reading"]
           /\ reply' = [reply EXCEPT ![f] = [media |-> media, bytes |-> 0]]
  BY DEF Request, Fails, To
<1>4. DOMAIN reason' = Fetchers
  BY DEF Request, Fails, NetInvariant, NetTypes
<1>5. fetch[f] \in CallRecords
  BY <1>1 DEF NetInvariant, NetTypes, Active
<1>6. fetch[f].scope.max_bytes \in Nat
  BY <1>5, NetworkAssumption DEF CallRecords
<1>7. NetTypes'
  <2>1. phase' \in [Fetchers -> Phases] /\ (\A g \in Fetchers : phase'[g] # "idle" => Active(g))
    BY <1>1, <1>3 DEF NetInvariant, NetTypes, Phases, Active
  <2>2. reply' \in [Fetchers -> [media : MediaTypes \cup {NoValue}, bytes : Nat]]
    BY <1>3 DEF NetInvariant, NetTypes
  <2> QED
    BY <1>1, <1>4, <2>1, <2>2 DEF NetInvariant, NetTypes, Active
<1>8. CallsApart'
  <2>1. \A g \in Fetchers : phase'[g] # "idle" => Active(g)
    BY <1>1, <1>3 DEF NetInvariant, NetTypes, Active
  <2>2. \A g \in Fetchers : phase'[g] \in {"prepared", "pinned"} =>
          g # f /\ phase[g] \in {"prepared", "pinned"}
    BY <1>3 DEF NetInvariant, NetTypes
  <2>3. \A g \in Fetchers : phase'[g] \in {"prepared", "pinned"} => sent.id # fetch[g].id
    BY <1>1, <1>2, <2>2 DEF NetInvariant, CallsApart, Active
  <2> QED
    BY <1>1, <2>1, <2>2, <2>3 DEF NetInvariant, CallsApart, Active
<1>9. Checked' /\ PinnedIsSafe'
  BY <1>1, <1>3 DEF NetInvariant, NetTypes, Checked, PinnedIsSafe
<1>10. Answered'
  <2> SUFFICES ASSUME NEW g \in Fetchers, phase'[g] \in {"reading", "fetched"}
               PROVE  /\ \E w \in wire' : /\ w.id = fetch'[g].id /\ w.scope = fetch'[g].scope
                                          /\ w.intent = fetch'[g].intent
                      /\ reply'[g].bytes <= fetch'[g].scope.max_bytes
                      /\ MediaIsAllowed(fetch'[g].scope, reply'[g].media)
    BY DEF Answered, MediaIsAllowed
  <2>1. CASE g = f
    <3>1. PICK media \in MediaTypes \cup {NoValue} :
            /\ MediaIsAllowed(fetch[f].scope, media)
            /\ reply' = [reply EXCEPT ![f] = [media |-> media, bytes |-> 0]]
      BY <1>3, <2>1 DEF NetInvariant, NetTypes
    <3>2. reply'[f] = [media |-> media, bytes |-> 0]
      BY <3>1 DEF NetInvariant, NetTypes
    <3>3. 0 <= fetch[f].scope.max_bytes
      BY <1>6
    <3> QED
      BY <1>1, <1>2, <2>1, <3>1, <3>2, <3>3
  <2>2. CASE g # f
    <3>1. phase[g] \in {"reading", "fetched"} /\ reply'[g] = reply[g]
      BY <1>3, <2>2 DEF NetInvariant, NetTypes
    <3> QED
      BY <1>1, <3>1 DEF NetInvariant, Answered
  <2> QED
    BY <2>1, <2>2
<1>11. ConnectsToChecked'
  <2>1. /\ UrlIsChecked(sent.scope, sent.intent)
        /\ sent.address \in UnsafeAddresses => sent.scope.allow_private_network
        /\ \A w \in wire : w.id # sent.id
    BY <1>1, <1>2 DEF NetInvariant, Checked, PinnedIsSafe, CallsApart
  <2>2. sent.port \in {EffectivePort(sent.intent.input.url)} \cup ProxyPorts
    BY <1>2, <2>1, PortIsKnown DEF UrlIsChecked
  <2> QED
    BY <1>1, <2>1, <2>2 DEF NetInvariant, ConnectsToChecked, UrlIsChecked
<1>12. StoredWithinScope'
  BY <1>1 DEF NetInvariant, StoredWithinScope
<1> QED
  BY <1>7, <1>8, <1>9, <1>10, <1>11, <1>12 DEF NetInvariant

LEMMA OneMore ==
  ASSUME NEW media, NEW r \in [media : media, bytes : Nat]
  PROVE  [r EXCEPT !.bytes = @ + 1] = [media |-> r.media, bytes |-> r.bytes + 1]
  OBVIOUS

LEMMA ReadKeeps ==
  ASSUME NetInvariant, NEW f \in Fetchers, Read(f)
  PROVE  NetInvariant'
<1>1. /\ phase[f] = "reading"
      /\ reply' = [reply EXCEPT ![f].bytes = @ + 1]
      /\ UNCHANGED <<fetch, pinned, wire, store>>
  BY DEF Read
<1>2. reply[f] \in [media : MediaTypes \cup {NoValue}, bytes : Nat]
  BY DEF NetInvariant, NetTypes
<1>3. reply' = [reply EXCEPT ![f] = [media |-> reply[f].media, bytes |-> reply[f].bytes + 1]]
  BY <1>1, <1>2, OneMore
<1>4. reply' \in [Fetchers -> [media : MediaTypes \cup {NoValue}, bytes : Nat]]
  BY <1>2, <1>3 DEF NetInvariant, NetTypes
<1>5. CASE reply[f].bytes + 1 > fetch[f].scope.max_bytes
  <2>1. Fails(f, "network_response_too_large")
    BY <1>5 DEF Read
  <2>2. \A g \in Fetchers \ {f} : reply'[g] = reply[g]
    BY <1>3 DEF NetInvariant, NetTypes
  <2> QED
    BY <1>1, <1>4, <2>1, <2>2, FailsKeeps DEF Active
<1>6. CASE ~(reply[f].bytes + 1 > fetch[f].scope.max_bytes)
  <2>1. UNCHANGED <<phase, reason>>
    BY <1>6 DEF Read
  <2>2. reply[f].bytes + 1 <= fetch[f].scope.max_bytes
    <3>1. fetch[f].scope.max_bytes \in Nat
      BY <1>1, NetworkAssumption DEF NetInvariant, NetTypes, Active, CallRecords
    <3> QED
      BY <1>2, <1>6, <3>1
  <2>3. NetTypes'
    BY <1>1, <1>4, <2>1 DEF NetInvariant, NetTypes, Active
  <2>4. Answered'
    BY <1>1, <1>3, <2>1, <2>2 DEF NetInvariant, NetTypes, Answered, MediaIsAllowed
  <2>5. CallsApart' /\ Checked' /\ PinnedIsSafe' /\ ConnectsToChecked' /\ StoredWithinScope'
    BY <1>1, <2>1 DEF NetInvariant, CallsApart, Checked, PinnedIsSafe, Active,
                      ConnectsToChecked, StoredWithinScope
  <2> QED
    BY <2>3, <2>4, <2>5 DEF NetInvariant
<1> QED
  BY <1>5, <1>6

LEMMA EndOfBodyKeeps ==
  ASSUME NetInvariant, NEW f \in Fetchers, EndOfBody(f)
  PROVE  NetInvariant'
<1> USE DEF NetInvariant, EndOfBody, To
<1>1. NetTypes'
  BY DEF NetTypes, Phases, Active
<1>2. CallsApart' /\ Checked'
  BY DEF NetTypes, CallsApart, Checked, Active
<1>3. PinnedIsSafe' /\ Answered'
  BY DEF NetTypes, PinnedIsSafe, Answered
<1>4. ConnectsToChecked' /\ StoredWithinScope'
  BY DEF ConnectsToChecked, StoredWithinScope
<1> QED
  BY <1>1, <1>2, <1>3, <1>4

\* The one action that adds to the store.
LEMMA PersistKeeps ==
  ASSUME NetInvariant, NEW f \in Fetchers, Persist(f)
  PROVE  NetInvariant'
<1> DEFINE target == fetch[f].intent.target
           kept == File(f)
<1>1. /\ phase[f] = "fetched"
      /\ phase' = [phase EXCEPT ![f] = "done"]
      /\ store' = {s \in store : s.target # target} \cup {kept}
      /\ UNCHANGED <<fetch, pinned, reply, reason, wire>>
  BY DEF Persist, To
<1>2. /\ kept.target = target /\ kept.id = fetch[f].id
      /\ kept.media = reply[f].media /\ kept.bytes = reply[f].bytes
  BY DEF File
<1> HIDE DEF kept
<1>3. NetTypes'
  BY <1>1 DEF NetInvariant, NetTypes, Phases, Active
<1>4. CallsApart' /\ Checked'
  BY <1>1 DEF NetInvariant, NetTypes, CallsApart, Checked, Active
<1>5. PinnedIsSafe' /\ Answered'
  BY <1>1 DEF NetInvariant, NetTypes, PinnedIsSafe, Answered
<1>6. ConnectsToChecked'
  BY <1>1 DEF NetInvariant, ConnectsToChecked
<1>7. StoredWithinScope'
  <2>1. PICK w \in wire : /\ w.id = fetch[f].id /\ w.scope = fetch[f].scope
                          /\ w.intent = fetch[f].intent
    BY <1>1 DEF NetInvariant, Answered
  <2>2. /\ kept.bytes <= w.scope.max_bytes /\ MediaIsAllowed(w.scope, kept.media)
        /\ w.id = kept.id /\ w.intent.target = kept.target /\ TargetIsSafe(kept.target)
    BY <1>1, <1>2, <2>1 DEF NetInvariant, Answered, Checked
  <2> QED
    BY <1>1, <1>2, <2>2 DEF NetInvariant, StoredWithinScope
<1> QED
  BY <1>3, <1>4, <1>5, <1>6, <1>7 DEF NetInvariant

LEMMA CommitKeeps ==
  ASSUME NetInvariant, NEW f \in Fetchers, Commit(f)
  PROVE  NetInvariant'
<1>1. reply \in [Fetchers -> [media : MediaTypes \cup {NoValue}, bytes : Nat]]
  BY DEF NetInvariant, NetTypes
<1>2. CASE ConnectFails(f)
  BY <1>1, <1>2, FailsKeeps DEF ConnectFails, Active
<1>3. CASE ReadFails(f)
  BY <1>1, <1>3, FailsKeeps DEF ReadFails, Active
<1>4. CASE PersistFails(f)
  BY <1>1, <1>4, FailsKeeps DEF PersistFails, Active
<1>5. CASE SendRaises(f)
  BY <1>1, <1>5, FailsKeeps DEF SendRaises, Active
<1> QED
  BY <1>2, <1>3, <1>4, <1>5, PinKeeps, RequestKeeps, ReadKeeps, EndOfBodyKeeps, PersistKeeps
     DEF Commit

LEMMA NetStepKeeps == NetInvariant /\ [NetNext]_netVars => NetInvariant'
<1> SUFFICES ASSUME NetInvariant, [NetNext]_netVars PROVE NetInvariant'
  OBVIOUS
<1>1. CASE UNCHANGED netVars
  <2>1. (NetTypes /\ CallsApart /\ Checked /\ PinnedIsSafe /\ Answered)'
    BY <1>1 DEF netVars, NetInvariant, NetTypes, CallsApart, Checked, PinnedIsSafe, Answered,
                Active, MediaIsAllowed
  <2>2. ConnectsToChecked' /\ StoredWithinScope'
    BY <1>1 DEF netVars, NetInvariant, ConnectsToChecked, StoredWithinScope
  <2> QED
    BY <2>1, <2>2 DEF NetInvariant
<1>2. CASE NetNext
  <2>1. PICK f \in Fetchers : Call(f) \/ Stop(f) \/ Commit(f) \/ Report(f) \/ Die(f)
    BY <1>2 DEF NetNext
  <2>2. CASE Call(f)
    <3>1. PICK id \in CallIds, scope \in NetScopes, intent \in NetIntents :
            Fresh(id) /\ Prepare(f, [id |-> id, scope |-> scope, intent |-> intent])
      BY <2>2 DEF Call
    <3>2. [id |-> id, scope |-> scope, intent |-> intent] \in CallRecords
      BY DEF CallRecords
    <3> QED
      BY <3>1, <3>2, PrepareKeeps
  <2>3. CASE Stop(f) \/ Report(f) \/ Die(f)
    BY <2>3, LeaveKeeps DEF Stop, Report, Die
  <2> QED
    BY <2>1, <2>2, <2>3, CommitKeeps
<1> QED
  BY <1>1, <1>2

LEMMA NetInvariantHolds == NetSpec => []NetInvariant
  BY NetInitInvariant, NetStepKeeps, PTL DEF NetSpec

-----------------------------------------------------------------------------
\* Every request goes where its scope allows, at a checked address and the port
\* of the URL or a proxy, once per call: for any number of callers, any scopes
\* and any answers of the resolver.
THEOREM NetConnectsToChecked == NetSpec => []ConnectsToChecked
<1>1. NetInvariant => ConnectsToChecked
  BY DEF NetInvariant
<1> QED
  BY <1>1, NetInvariantHolds, PTL

\* What is kept is a bounded answer, of a type the scope allows, to the request
\* made for its target: for bodies and caps of any length.
THEOREM NetStoredWithinScope == NetSpec => []StoredWithinScope
<1>1. NetInvariant => StoredWithinScope
  BY DEF NetInvariant
<1> QED
  BY <1>1, NetInvariantHolds, PTL
=============================================================================
