---------------------------- MODULE ContractQueries ----------------------------
(***************************************************************************)
(* pkg/controller: reading the participant's active contracts from a       *)
(* response channel and an error channel with select.  The loops of        *)
(* GetActiveContracts, ListContractsByInterface and the like are one flow; *)
(* GetBalance, GetValidatorUser, approving a proposal, using a merge       *)
(* delegation and finding the AmuletRules contract go their own ways.      *)
(***************************************************************************)
EXTENDS Integers, Sequences, FiniteSets, SequencesExt

CONSTANTS
    NumTemplates,   \* AmuletRules is sought under this many template ids: 3 in the code
    Contracts,      \* contracts, each a pair of a template and a serial number
    Readable,       \* those whose payload has the field GetBalance, GetValidatorUser read
    Room,           \* responses the library's channel holds
    Pairs,          \* the AmuletRules contracts whose ids an application may configure
    Environments,   \* what AMULET_RULES_TEMPLATE_ID and _CONTRACT_ID may hold
    MaxChanges,     \* bound: contracts created or archived
    Nil

Templates == 1..NumTemplates
Of(template, contracts) == {c \in contracts : c[1] = template}

ASSUME SizesAssumption ==
    NumTemplates \in Nat \ {0} /\ Room \in Nat \ {0} /\ MaxChanges \in Nat
ASSUME ContractAssumption ==
    /\ \A c \in Contracts : c[1] \in Templates
    /\ Readable \subseteq Contracts /\ Pairs \subseteq Contracts
    /\ Nil \notin Templates /\ Nil \notin Contracts
ASSUME EnvironmentAssumption ==
    Environments \subseteq [template : Templates \cup {Nil}, contract : Contracts \cup {Nil}]

VARIABLES
    acs, changes,   \* the participant's active contracts, and how often they changed
    env,            \* the environment's halves, fixed while the process runs
    idTemplate, idContract, \* amuletRulesTemplateID and amuletRulesContractID
    pc, flow, template,     \* the call: its position, kind and template
    known,          \* the template id a search has loaded, or the environment's
    snapshot,       \* what was active when its stream began
    sending, stream, ended, errs,   \* the library's side: to send, in the channel,
                                    \* channel closed, state of the error channel
    got, result,    \* contracts received in order; how the call ended
    steady,         \* history: the contracts active during the whole call so far
    inForce         \* history: the ids in force at some moment of a search

participant == <<acs, changes>>
config == <<env, idTemplate, idContract>>
channel == <<sending, stream>>
library == <<snapshot, channel, ended, errs>>
vars == <<acs, changes, env, idTemplate, idContract, pc, flow, template, known,
          snapshot, sending, stream, ended, errs, got, result, steady, inForce>>

Flows == {"collect", "balance", "first", "approve", "delegate", "rules"}
NoResult == [kind |-> "none", template |-> Nil, contract |-> Nil]
NothingInForce == [templates |-> {}, contracts |-> {}]

Init ==
    /\ acs \in SUBSET Contracts
    /\ changes = 0
    /\ env \in Environments
    /\ idTemplate = Nil /\ idContract = Nil
    /\ pc = "idle" /\ flow = "collect" /\ template = 1 /\ known = Nil
    /\ snapshot = {} /\ sending = {} /\ stream = <<>>
    /\ ended = FALSE /\ errs = "open"
    /\ got = <<>> /\ result = NoResult /\ steady = {}
    /\ inForce = NothingInForce

\* The call returns; nobody receives what is still in the channel.
Return(kind, t, c) ==
    /\ pc' = "idle"
    /\ result' = [kind |-> kind, template |-> t, contract |-> c]
    /\ sending' = {} /\ stream' = <<>>

Fails == Return("error", Nil, Nil)

\* GetActiveContracts of the library: a stream of what is active now, among it perhaps
\* a response that is no active contract (Nil).
Open(t) ==
    /\ pc' = "reading"
    /\ template' = t
    /\ snapshot' = Of(t, acs)
    /\ sending' \in {Of(t, acs), Of(t, acs) \cup {Nil}}
    /\ stream' = <<>> /\ ended' = FALSE /\ errs' = "open"
    /\ got' = <<>>
    /\ inForce' = NothingInForce

\* A collecting query, GetBalance, GetValidatorUser ("first"), an approval or a
\* UseMergeDelegations with holdings enough is called, through one template id.
Call(f) ==
    /\ pc = "idle"
    /\ flow' = f
    /\ Open(1)
    /\ result' = NoResult
    /\ steady' = acs
    /\ UNCHANGED <<participant, config, known>>

\* GetActiveContracts dereferences the filter it is given, which may be nil.
CallWithoutFilter ==
    /\ pc = "idle"
    /\ flow' = "collect"
    /\ pc' = "panic"
    /\ result' = NoResult
    /\ UNCHANGED <<participant, config, library, template, known, got, steady, inForce>>

\* What an id is: the one that was set, else the environment's.
InForce(set, fallback) == IF set = Nil THEN fallback ELSE set
TemplateInForce == InForce(idTemplate, env.template)
ContractInForce == InForce(idContract, env.contract)

\* findAmuletRulesContract loads the template id, ...
FindAmuletRules ==
    /\ pc = "idle"
    /\ flow' = "rules"
    /\ pc' = "configured"
    /\ known' = TemplateInForce
    /\ inForce' = [templates |-> {TemplateInForce} \ {Nil}, contracts |-> {ContractInForce} \ {Nil}]
    /\ got' = <<>>
    /\ result' = NoResult
    /\ steady' = acs
    /\ UNCHANGED <<participant, config, template, library>>

\* Mutant: only the contract id is tested.
UseHalfConfigured ==
    /\ pc = "configured"
    /\ IF ContractInForce # Nil
       THEN Return("ok", known, ContractInForce) /\ UNCHANGED <<template, snapshot, ended, errs, got, inForce>>
       ELSE Open(1) /\ UNCHANGED result
    /\ known' = Nil
    /\ UNCHANGED <<participant, config, flow, steady>>

\* ... then the contract id: both there, they are the answer.  Otherwise the packages
\* are listed; that fails, misses splice-amulet or leads to the first template.
UseConfigured ==
    /\ pc = "configured"
    /\ IF known # Nil /\ ContractInForce # Nil
       THEN Return("ok", known, ContractInForce) /\ UNCHANGED <<template, snapshot, ended, errs, got, inForce>>
       ELSE \/ Open(1) /\ UNCHANGED result
            \/ Fails /\ UNCHANGED <<template, snapshot, ended, errs, got, inForce>>
    /\ known' = Nil
    /\ UNCHANGED <<participant, config, flow, steady>>

\* Mutants: the list is overrun; the same template id is tried again.
NextTemplateOverrun ==
    IF template <= NumTemplates
    THEN Open(template + 1) /\ UNCHANGED result
    ELSE Return("notFound", Nil, Nil) /\ UNCHANGED <<template, snapshot, ended, errs, got, inForce>>

SameTemplate == Open(template) /\ UNCHANGED result

\* The search goes on with the next template id, or ends.
NextTemplate ==
    IF template < NumTemplates
    THEN Open(template + 1) /\ UNCHANGED result
    ELSE Return("notFound", Nil, Nil) /\ UNCHANGED <<template, snapshot, ended, errs, got, inForce>>

\* What a flow keeps of a response: GetBalance and GetValidatorUser pass over a
\* contract without the field they read, ...
Reads(c) == flow \in {"balance", "first"} => c \in Readable

\* ... and may panic: they assert that its payload is a record.
Panics(r) == r # Nil /\ ~Reads(r)

\* case resp, ok := <-stream with a response: it is kept, passed over or the one that
\* is wanted; UseMergeDelegations takes whatever comes first.
TakeResponse ==
    LET r == Head(stream)
        kept == r # Nil /\ Reads(r)
    IN
    /\ pc = "reading"
    /\ stream # <<>>
    /\ got' = IF kept THEN Append(got, r) ELSE got
    /\ \/ Panics(r) /\ pc' = "panic" /\ UNCHANGED <<channel, result>>
       \/ kept /\ flow \in {"first", "delegate"} /\ Return("ok", template, r)
       \/ ~kept /\ flow = "delegate" /\ Fails
       \/ /\ flow # "delegate" /\ (flow = "first" => ~kept)
          /\ stream' = Tail(stream)
          /\ UNCHANGED <<pc, result, sending>>
    /\ UNCHANGED <<participant, config, flow, template, known, snapshot, ended, errs,
                   steady, inForce>>

\* The stream is closed and drained.  Collected contracts are returned, the first
\* proposal or the last rules contract is picked; UseMergeDelegations does not test
\* ok and dereferences a nil response.
StreamClosed ==
    /\ pc = "reading"
    /\ stream = <<>> /\ ended
    /\ CASE flow \in {"collect", "balance"} ->
              Return("ok", template, Nil) /\ UNCHANGED <<template, snapshot, ended, errs, got, inForce>>
         [] flow \in {"approve", "first"} ->
              /\ IF got = <<>> THEN Fails ELSE Return("ok", template, Head(got))
              /\ UNCHANGED <<template, snapshot, ended, errs, got, inForce>>
         [] flow = "delegate" ->
              pc' = "panic" /\ UNCHANGED <<template, library, got, result, inForce>>
         [] flow = "rules" ->
              IF got = <<>> THEN NextTemplate
              ELSE /\ Return("ok", template, Last(got))
                   /\ UNCHANGED <<template, snapshot, ended, errs, got, inForce>>
    /\ UNCHANGED <<participant, config, flow, known, steady>>

\* case err := <-errChan with an error: it ends the call, or only the search under
\* this template id.
TakeError ==
    /\ pc = "reading"
    /\ errs = "error"
    /\ IF flow = "rules" THEN NextTemplate
       ELSE Fails /\ UNCHANGED <<template, snapshot, ended, errs, got, inForce>>
    /\ UNCHANGED <<participant, config, flow, known, steady>>

\* Mutant: a closed error channel ends the collecting loops.
NilEndsLoop ==
    /\ pc = "reading"
    /\ errs = "closed"
    /\ flow = "collect"
    /\ Return("ok", template, Nil)
    /\ UNCHANGED <<participant, config, snapshot, ended, errs, flow, template, known, got,
                   steady, inForce>>

\* case err := <-errChan of the closed channel: the loops go round again, but
\* UseMergeDelegations returns a nil result with a nil error.
TakeNil ==
    /\ pc = "reading"
    /\ errs = "closed"
    /\ flow = "delegate"
    /\ Return("nothing", Nil, Nil)
    /\ UNCHANGED <<participant, config, snapshot, ended, errs, flow, template, known, got,
                   steady, inForce>>

\* case <-ctx.Done(); UseMergeDelegations has no such case.
CtxDone ==
    /\ pc = "reading"
    /\ flow # "delegate"
    /\ Fails
    /\ UNCHANGED <<participant, config, snapshot, ended, errs, flow, template, known, got,
                   steady, inForce>>
-----------------------------------------------------------------------------
(* External: the client library and the participant, as the code uses them. *)

Deliver(c) ==
    /\ pc = "reading" /\ ~ended /\ errs # "error"
    /\ c \in sending
    /\ Len(stream) < Room
    /\ sending' = sending \ {c}
    /\ stream' = Append(stream, c)
    /\ UNCHANGED <<participant, config, pc, flow, template, known, snapshot, ended,
                   errs, got, result, steady, inForce>>

\* Everything was sent, or the stream failed: the channels are closed in either
\* order, an error still to be taken or not.
Finish ==
    /\ pc = "reading" /\ ~ended
    /\ sending = {} \/ errs = "error"
    /\ \/ errs = "open" /\ errs' = "closed" /\ UNCHANGED ended
       \/ ended' = TRUE /\ UNCHANGED errs
    /\ UNCHANGED <<participant, config, pc, flow, template, known, snapshot, sending,
                   stream, got, result, steady, inForce>>

\* The stream fails: nothing more is sent but the error.
Fail ==
    /\ pc = "reading" /\ ~ended /\ errs = "open"
    /\ errs' = "error"
    /\ UNCHANGED <<participant, config, pc, flow, template, known, snapshot, sending,
                   stream, ended, got, result, steady, inForce>>

\* A contract appears or is archived meanwhile.
Change(c) ==
    /\ changes < MaxChanges
    /\ changes' = changes + 1
    /\ acs' = IF c \in acs THEN acs \ {c} ELSE acs \cup {c}
    /\ steady' = steady \ {c}
    /\ UNCHANGED <<config, library, pc, flow, template, known, got, result, inForce>>

\* Other goroutines store an id, of any pair or empty, whatever was stored before.  The
\* history notes what that puts in force while a search is between its two loads.
SetAmuletRulesTemplateID(id) ==
    /\ idTemplate' = id
    /\ inForce' = IF pc = "configured"
               THEN [inForce EXCEPT !.templates = @ \cup ({InForce(id, env.template)} \ {Nil})]
               ELSE inForce
    /\ UNCHANGED <<participant, env, idContract, library, pc, flow, template, known, got,
                   result, steady>>

SetAmuletRulesContractID(id) ==
    /\ idContract' = id
    /\ inForce' = IF pc = "configured"
               THEN [inForce EXCEPT !.contracts = @ \cup ({InForce(id, env.contract)} \ {Nil})]
               ELSE inForce
    /\ UNCHANGED <<participant, env, idTemplate, library, pc, flow, template, known, got,
                   result, steady>>

Work == UseConfigured \/ TakeResponse \/ StreamClosed \/ TakeError \/ TakeNil

Next ==
    \/ \E f \in Flows \ {"rules"} : Call(f)
    \/ CallWithoutFilter \/ FindAmuletRules
    \/ Work \/ CtxDone
    \/ \E c \in Contracts : Deliver(c) \/ Change(c)
    \/ Deliver(Nil) \/ Finish \/ Fail
    \/ \E p \in Pairs : SetAmuletRulesTemplateID(p[1]) \/ SetAmuletRulesContractID(p)
    \/ SetAmuletRulesTemplateID(Nil) \/ SetAmuletRulesContractID(Nil)

Spec == Init /\ [][Next]_vars

\* The caller runs, select passes no ready case over for ever, and the library ends
\* a stream it can end; ctx need not be cancelled.
FairSpec ==
    /\ Spec
    /\ WF_vars(UseConfigured) /\ WF_vars(TakeResponse) /\ WF_vars(StreamClosed)
    /\ WF_vars(TakeError)
    /\ WF_vars(\E c \in Contracts \cup {Nil} : Deliver(c))
    /\ WF_vars(Finish /\ ended')
-----------------------------------------------------------------------------
\* Every variable stays in its type.
TypeOK ==
    /\ acs \in SUBSET Contracts /\ changes \in 0..MaxChanges
    /\ env \in Environments
    /\ idTemplate \in Templates \cup {Nil} /\ idContract \in Contracts \cup {Nil}
    /\ pc \in {"idle", "configured", "reading", "panic"}
    /\ flow \in Flows
    /\ template \in Templates
    /\ known \in Templates \cup {Nil}
    /\ snapshot \in SUBSET Contracts /\ sending \in SUBSET (Contracts \cup {Nil})
    /\ stream \in Seq(Contracts \cup {Nil}) /\ ended \in BOOLEAN
    /\ errs \in {"open", "error", "closed"}
    /\ got \in Seq(Contracts)
    /\ result \in [kind : {"none", "ok", "error", "notFound", "nothing"},
                   template : Templates \cup {Nil}, contract : Contracts \cup {Nil}]
    /\ steady \in SUBSET Contracts
    /\ inForce \in [templates : SUBSET Templates, contracts : SUBSET Contracts]

\* A query that reports success over a stream that did not fail has every contract
\* that was active when its stream began, and so every one active throughout the call:
\* whichever channel select serves first, a shortened list is not passed off as whole.
\* A balance has those whose amount can be read.
CompleteUnlessFailed ==
    result.kind = "ok" /\ flow \in {"collect", "balance", "approve"} /\ errs # "error"
    => /\ ToSet(got) = {c \in snapshot : Reads(c)}
       /\ Of(template, steady) \subseteq snapshot

\* Every template id and contract id in force during the search belong together.
OnePairInForce == \A t \in inForce.templates, c \in inForce.contracts : c[1] = t

\* A contract found in a stream was active, under the template id it is returned with:
\* the responses of one template id are not taken for another's.  A configured one has
\* ids that were in force during the search, and they fit if all those do.
PickedContractFits ==
    result.kind = "ok" /\ flow \in {"first", "approve", "delegate", "rules"}
    => IF got # <<>>
       THEN result.contract \in Of(result.template, snapshot)
       ELSE /\ result.template \in inForce.templates /\ result.contract \in inForce.contracts
            /\ OnePairInForce => result.contract[1] = result.template

\* Queries over streams that end return, also when an error channel closed early
\* keeps select spinning and a search goes through all template ids; a panic ends
\* the caller too.
QueriesReturn == pc = "reading" ~> pc \in {"idle", "panic"}

\* What a reader of ledger.go:645-670 would expect: success means a whole list, also
\* when the stream fails (the closed stream may be seen before the error).
CompleteOrError ==
    result.kind = "ok" /\ flow \in {"collect", "approve"} => ToSet(got) = snapshot

\* tokenstandard.go:230, GetBalance: the balance counts every holding there is.
\* README.md:394 knows that it does not.
BalanceIsWhole ==
    result.kind = "ok" /\ flow = "balance" /\ errs # "error" => ToSet(got) = snapshot

\* tokenstandard.go:1662, "Using AmuletRules contract from configured values": the two
\* values name one contract.
ConfiguredPairFits ==
    result.kind = "ok" /\ flow = "rules" => result.contract[1] = result.template

\* tokenstandard.go:1769, "AmuletRules contract not found - it may need to be
\* initialized first": no rules contract was active throughout the search.
NotFoundIsTrue == result.kind = "notFound" => steady = {}

\* tokenstandard.go:1603, "merge delegation contract not found": a call that finds
\* no delegation says so.
MissingDelegationIsReported ==
    flow = "delegate" => pc # "panic" /\ result.kind # "nothing"
=============================================================================
