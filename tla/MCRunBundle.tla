----------------------------- MODULE MCRunBundle -----------------------------
EXTENDS RunBundle, PolicyBlock, Tongue, TLC

Interchangeable == Permutations(Fetchers)

Url(scheme, host, port, path) ==
  [scheme |-> scheme, userinfo |-> FALSE, host |-> host, port |-> port, path |-> path]

PlainUrl == Url("http", "host", 80, <<"/", "api", "/item">>)
SecureUrl == Url("https", "host", Unset, <<"/", "api", "/item">>)

\* A letter outside ASCII in an allowed path, and a host with a label too long.
AccentedUrl == Url("http", "host", Unset, <<"/", "api", "/accented">>)
OverlongUrl == Url("https", "overlong", Unset, <<"/", "api", "/item">>)

MCProxyPort == [http |-> Unset, https |-> 3128]

\* What a name resolves to: nothing, a public address, or also a private one.
MCResolutions == {<<>>, <<"public">>, <<"private", "public">>}

Intent(id, url, custody) ==
  [intent_id |-> id, proposal_id |-> "p", adapter |-> "network", operation |-> "fetch",
   target |-> <<"responses", "item">>, input |-> [url |-> url, method |-> "GET"],
   required_capability |-> Kind, idempotency_key |-> Unset, custody_mode |-> custody]

Proposal(act, intent) ==
  [schema_version |-> "0.1", record_type |-> "proposal", speech_act |-> act,
   proposal_id |-> ProposalIdFor([says |-> "intend"]), actor |-> "agent", evidence |-> Unset, intent |-> intent]

Line(says) == [says |-> says, cut |-> FALSE]

Approval(authority, kind) ==
  Line("approval") @@ [authority |-> authority, condition |-> {kind}]

BareBlock ==
  <<Line("scope") @@ [name |-> "s"],
    Line("resource") @@ [kind |-> "network", target |-> "host"],
    Line("capability") @@ [kind |-> "network", name |-> Kind],
    Line("capability") @@ [kind |-> "file", name |-> "file.write"],
    Line("policy") @@ [effect |-> "deny", condition |-> {}],
    Approval("council", Kind), Approval("performer", "file.write"),
    Line("audit") @@ [fields |-> {"trace", "approval"}],
    Line("close")>>

\* As `approval grant` is written, and with a URL for a target.
GrantingBlock == [BareBlock EXCEPT ![6] = Line("grant")]
UrlBlock == [BareBlock EXCEPT ![2].cut = TRUE]

ASSUME IsPolicyBlock(BareBlock) /\ ~IsPolicyBlock(GrantingBlock) /\ ~IsPolicyBlock(UrlBlock)

\* A scope that began as a policy block and was given what a block cannot say.
BareScope ==
  [BlockRecord(BareBlock) EXCEPT !.max_bytes = 1,
                                 !.network_allow = <<Url("http", "host", Unset, <<"/", "api">>)>>,
                                 !.network_allowed_content_types = {"text"}]

PrivateScope == [BareScope EXCEPT !.scope_id = "t", !.approvals = Unset,
                                  !.approval_required_for = {Kind},
                                  !.allow_private_network = TRUE,
                                  !.network_allow = <<[SecureUrl EXCEPT !.port = 443], OverlongUrl>>]

UnclearScope == [BareScope EXCEPT !.approvals = {{}}]

MCScopeRecords == {BareScope, PrivateScope, UnclearScope}

Fetch == Proposal("intend", Intent("i", PlainUrl, Unset))
Secure == Proposal("intend", Intent("j", SecureUrl, Null))
ForOthers == Proposal("intend", Intent("k", SecureUrl, "record_only"))
Accented == Proposal("intend", Intent("a", AccentedUrl, Unset))
Overlong == Proposal("intend", Intent("o", OverlongUrl, Unset))
Claim == ParsedLine([says |-> "claim", claim |-> "done", evidence |-> {}], "agent")

MCProposalRecords == {Fetch, Secure, ForOthers, Accented, Overlong, Claim}

\* An approval that is only asked for, in a wrapper, and one from elsewhere.
Asked == [approval |-> [status |-> "requested", authority |-> "performer",
                        scope_id |-> "t", intent_id |-> "j",
                        intent_sha256 |-> Malformed, expires_at |-> Unset]]
Council == [status |-> "approved", authority |-> "council", scope_id |-> Unset,
            intent_id |-> "i", intent_sha256 |-> Unset, expires_at |-> 1]

Bundle(scope, proposal, approval, paused) ==
  [scope |-> scope, proposal |-> proposal, approval |-> approval, paused |-> paused]

MCBundles == {Bundle(BareScope, Fetch, Absent, FALSE),
              Bundle(BareScope, Fetch, Absent, TRUE),
              Bundle(BareScope, Fetch, Council, FALSE),
              Bundle(BareScope, Secure, Absent, FALSE),
              Bundle(PrivateScope, Secure, Asked, FALSE),
              Bundle(PrivateScope, ForOthers, Absent, FALSE),
              Bundle(UnclearScope, Claim, Absent, FALSE)}

MCNetScopes ==
  {ScopeFromRecord(s, DefaultMaxBytes) : s \in {r \in MCScopeRecords : ScopeOutcome(r) = "lowered"}}

MCNetIntents ==
  {ProposalFromRecord(p).intent : p \in {r \in MCProposalRecords : r.intent # Unset}}
=============================================================================
