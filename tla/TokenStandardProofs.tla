--------------------------- MODULE TokenStandardProofs ---------------------------
(***************************************************************************)
(* Proofs about the two halves of the TokenStandardController that read    *)
(* the participant: ContractQueries, for any number of templates,          *)
(* contracts, responses in the channel and changes meanwhile, and Polling, *)
(* for any parties, attempts and bounds.                                   *)
(***************************************************************************)
EXTENDS ContractQueries, Polling, TLAPS

-----------------------------------------------------------------------------
(* Contract queries: whichever ready case select takes, a success over a   *)
(* stream that did not fail is complete, and a picked contract fits.       *)

\* A search between its two loads: what it has loaded and what is in force now were in
\* force during the search.
Configured ==
    pc = "configured" =>
        /\ flow = "rules" /\ got = <<>>
        /\ known # Nil => known \in inForce.templates
        /\ ContractInForce # Nil => ContractInForce \in inForce.contracts

\* During a call there is no result yet, and what was active throughout is active.
Calling == pc \in {"configured", "reading"} => steady \subseteq acs /\ result = NoResult

\* What is kept was active when the stream began; all that is to be kept is kept, in
\* the channel or still to be sent.
Streaming ==
    pc = "reading" =>
        /\ ToSet(got) \subseteq {c \in snapshot : Reads(c)}
        /\ {c \in snapshot : Reads(c)} \subseteq ToSet(got) \cup ToSet(stream) \cup sending
        /\ ToSet(stream) \cup sending \subseteq snapshot \cup {Nil}
        /\ ended => sending = {} \/ errs = "error"
        /\ snapshot \subseteq Of(template, Contracts)
        /\ Of(template, steady) \subseteq snapshot

\* A panic leaves no result.
Silent == pc = "panic" => result = NoResult

QueryInv ==
    /\ TypeOK /\ Configured /\ Calling /\ Streaming /\ Silent
    /\ CompleteUnlessFailed /\ PickedContractFits

-----------------------------------------------------------------------------
(* Elements of sequences. *)

LEMMA ToSetEmpty == ToSet(<<>>) = {}
BY DEF ToSet

LEMMA ToSetAppend ==
    ASSUME NEW S, NEW q \in Seq(S), NEW e \in S
    PROVE  Append(q, e) \in Seq(S) /\ ToSet(Append(q, e)) = ToSet(q) \cup {e}
<1>1. /\ Append(q, e) \in Seq(S) /\ Len(q) \in Nat /\ Len(Append(q, e)) = Len(q) + 1
      /\ DOMAIN q = 1..Len(q) /\ DOMAIN Append(q, e) = 1..(Len(q) + 1)
      /\ \A i \in 1..Len(q) : Append(q, e)[i] = q[i]
      /\ Append(q, e)[Len(q) + 1] = e
  OBVIOUS
<1>2. ToSet(Append(q, e)) \subseteq ToSet(q) \cup {e}
  <2>1. ASSUME NEW i \in 1..(Len(q) + 1) PROVE Append(q, e)[i] \in ToSet(q) \cup {e}
    BY <1>1 DEF ToSet
  <2>2. QED BY <1>1, <2>1 DEF ToSet
<1>3. ToSet(q) \cup {e} \subseteq ToSet(Append(q, e))
  BY <1>1 DEF ToSet
<1>4. QED BY <1>1, <1>2, <1>3

LEMMA ToSetHeadTail ==
    ASSUME NEW S, NEW q \in Seq(S), q # <<>>
    PROVE  /\ Tail(q) \in Seq(S) /\ Head(q) \in S
           /\ Head(q) \in ToSet(q) /\ Last(q) \in ToSet(q) /\ Last(q) \in S
           /\ ToSet(q) = {Head(q)} \cup ToSet(Tail(q))
<1>1. /\ Len(q) \in Nat \ {0} /\ Head(q) = q[1] /\ Tail(q) \in Seq(S)
      /\ Len(Tail(q)) = Len(q) - 1
      /\ DOMAIN q = 1..Len(q) /\ DOMAIN Tail(q) = 1..(Len(q) - 1)
      /\ \A i \in 1..(Len(q) - 1) : Tail(q)[i] = q[i + 1]
  OBVIOUS
<1>2. Head(q) \in ToSet(q) /\ Last(q) \in ToSet(q) /\ Head(q) \in S /\ Last(q) \in S
  BY <1>1 DEF ToSet, Last
<1>3. ToSet(q) \subseteq {Head(q)} \cup ToSet(Tail(q))
  <2>1. ASSUME NEW i \in 1..Len(q) PROVE q[i] \in {Head(q)} \cup ToSet(Tail(q))
    <3>1. CASE i = 1
      BY <1>1, <3>1
    <3>2. CASE i # 1
      <4>1. i - 1 \in 1..(Len(q) - 1) /\ q[i] = Tail(q)[i - 1]
        BY <1>1, <3>2
      <4>2. QED BY <1>1, <4>1 DEF ToSet
    <3>3. QED BY <3>1, <3>2
  <2>2. QED BY <1>1, <2>1 DEF ToSet
<1>4. ToSet(Tail(q)) \subseteq ToSet(q)
  <2>1. ASSUME NEW i \in 1..(Len(q) - 1) PROVE Tail(q)[i] \in ToSet(q)
    BY <1>1 DEF ToSet
  <2>2. QED BY <1>1, <2>1 DEF ToSet
<1>5. QED BY <1>1, <1>2, <1>3, <1>4

-----------------------------------------------------------------------------
\* Every result has the type of one.
LEMMA ResultTypes ==
    ASSUME NEW kind \in {"none", "ok", "error", "notFound", "nothing"},
           NEW t \in Templates \cup {Nil}, NEW c \in Contracts \cup {Nil}
    PROVE  [kind |-> kind, template |-> t, contract |-> c] \in
              [kind : {"none", "ok", "error", "notFound", "nothing"},
               template : Templates \cup {Nil}, contract : Contracts \cup {Nil}]
OBVIOUS

\* A state without a result has nothing to answer for.
LEMMA NoResultYet ==
    ASSUME result' = NoResult \/ result'.kind \in {"error", "notFound", "nothing"}
    PROVE  CompleteUnlessFailed' /\ PickedContractFits'
BY DEF CompleteUnlessFailed, PickedContractFits, NoResult

LEMMA QueryInit == Init => QueryInv
<1> SUFFICES ASSUME Init PROVE QueryInv
  OBVIOUS
<1>1. 1 \in Templates /\ <<>> \in Seq(Contracts) /\ <<>> \in Seq(Contracts \cup {Nil})
  BY SizesAssumption DEF Templates
<1>2. result \in [kind : {"none", "ok", "error", "notFound", "nothing"},
                  template : Templates \cup {Nil}, contract : Contracts \cup {Nil}]
  BY ResultTypes DEF Init, NoResult
<1>3. TypeOK
  <2>1. /\ acs \in SUBSET Contracts /\ changes \in 0..MaxChanges /\ env \in Environments
        /\ idTemplate \in Templates \cup {Nil} /\ idContract \in Contracts \cup {Nil}
        /\ template \in Templates /\ known \in Templates \cup {Nil}
    BY <1>1, SizesAssumption DEF Init
  <2>2. /\ snapshot \in SUBSET Contracts /\ sending \in SUBSET (Contracts \cup {Nil})
        /\ steady \in SUBSET Contracts
        /\ stream \in Seq(Contracts \cup {Nil}) /\ got \in Seq(Contracts)
        /\ inForce \in [templates : SUBSET Templates, contracts : SUBSET Contracts]
    BY <1>1 DEF Init, NothingInForce
  <2>3. /\ pc \in {"idle", "configured", "reading", "panic"} /\ flow \in Flows
        /\ ended \in BOOLEAN /\ errs \in {"open", "error", "closed"}
    BY DEF Init, Flows
  <2>4. QED BY <1>2, <2>1, <2>2, <2>3 DEF TypeOK
<1>4. QED
  BY <1>3 DEF Init, QueryInv, Configured, Calling, Streaming, Silent, CompleteUnlessFailed,
              PickedContractFits, NoResult

\* A stream that is opened.
LEMMA Opening ==
    ASSUME TypeOK, NEW t \in Templates, Open(t), steady' \subseteq acs
    PROVE  /\ pc' = "reading" /\ template' = t
           /\ snapshot' \in SUBSET Contracts /\ sending' \in SUBSET (Contracts \cup {Nil})
           /\ stream' \in Seq(Contracts \cup {Nil}) /\ got' \in Seq(Contracts)
           /\ ended' \in BOOLEAN /\ errs' \in {"open", "error", "closed"}
           /\ inForce' \in [templates : SUBSET Templates, contracts : SUBSET Contracts]
           /\ Streaming'
<1>1. /\ pc' = "reading" /\ template' = t /\ got' = <<>> /\ stream' = <<>>
      /\ snapshot' = Of(t, acs) /\ sending' \in {Of(t, acs), Of(t, acs) \cup {Nil}}
      /\ ended' = FALSE /\ errs' = "open" /\ inForce' = NothingInForce
  BY DEF Open
<1>2. Of(t, acs) \subseteq Contracts /\ Of(t, acs) \subseteq Of(t, Contracts)
  BY DEF Of, TypeOK
<1>3. Of(t, steady') \subseteq Of(t, acs)
  BY DEF Of
<1>4. Of(template, steady)' = Of(t, steady') /\ Of(template, Contracts)' = Of(t, Contracts)
  BY <1>1 DEF Of
<1>5. /\ snapshot' \in SUBSET Contracts /\ sending' \in SUBSET (Contracts \cup {Nil})
      /\ snapshot' \subseteq sending' /\ sending' \subseteq snapshot' \cup {Nil}
  BY <1>1, <1>2
<1>6. /\ stream' \in Seq(Contracts \cup {Nil}) /\ got' \in Seq(Contracts)
      /\ inForce' \in [templates : SUBSET Templates, contracts : SUBSET Contracts]
  BY <1>1 DEF NothingInForce
<1>7. Streaming'
  <2>1. ToSet(got') = {} /\ ToSet(stream') = {}
    BY <1>1, ToSetEmpty
  <2>2. QED BY <1>1, <1>2, <1>3, <1>4, <1>5, <2>1 DEF Streaming, ToSet
<1>8. QED BY <1>1, <1>5, <1>6, <1>7

\* A call that ends without a contract and without a collection.
LEMMA EndsEmpty ==
    ASSUME QueryInv, NEW kind \in {"error", "notFound", "nothing"}, Return(kind, Nil, Nil),
           UNCHANGED <<acs, changes, env, idTemplate, idContract, template, snapshot,
                       ended, errs, flow, steady, inForce>>,
           known' \in {known, Nil}, got' \in Seq(Contracts)
    PROVE  QueryInv'
<1>1. /\ pc' = "idle" /\ result' = [kind |-> kind, template |-> Nil, contract |-> Nil]
      /\ result'.kind = kind /\ sending' = {} /\ stream' = <<>>
  BY DEF Return
<1>2. TypeOK'
  <2>1. result' \in [kind : {"none", "ok", "error", "notFound", "nothing"},
                     template : Templates \cup {Nil}, contract : Contracts \cup {Nil}]
    BY <1>1, ResultTypes
  <2>2. stream' \in Seq(Contracts \cup {Nil}) /\ sending' \in SUBSET (Contracts \cup {Nil})
    BY <1>1
  <2>3. known' \in Templates \cup {Nil}
    BY DEF QueryInv, TypeOK
  <2>4. QED BY <1>1, <2>1, <2>2, <2>3 DEF QueryInv, TypeOK
<1>3. CompleteUnlessFailed' /\ PickedContractFits'
  BY <1>1, NoResultYet
<1>4. QED
  BY <1>1, <1>2, <1>3 DEF QueryInv, Configured, Calling, Streaming, Silent

\* A call that ends well: what it has received, and what it picked.
LEMMA EndsWell ==
    ASSUME QueryInv, NEW t \in Templates, NEW c \in Contracts \cup {Nil}, Return("ok", t, c),
           UNCHANGED <<acs, changes, env, idTemplate, idContract, template, snapshot,
                       ended, errs, flow, steady, inForce>>,
           known' \in {known, Nil}, got' \in Seq(Contracts),
           flow \in {"collect", "balance", "approve"} /\ errs # "error" =>
               /\ ToSet(got') = {x \in snapshot : Reads(x)}
               /\ Of(template, steady) \subseteq snapshot,
           flow \in {"first", "approve", "delegate", "rules"} =>
               IF got' # <<>> THEN c \in Of(t, snapshot)
               ELSE /\ t \in inForce.templates /\ c \in inForce.contracts
                    /\ OnePairInForce => c[1] = t
    PROVE  QueryInv'
<1>1. /\ pc' = "idle" /\ result' = [kind |-> "ok", template |-> t, contract |-> c]
      /\ result'.template = t /\ result'.contract = c /\ sending' = {} /\ stream' = <<>>
  BY DEF Return
<1>2. TypeOK'
  <2>1. result' \in [kind : {"none", "ok", "error", "notFound", "nothing"},
                     template : Templates \cup {Nil}, contract : Contracts \cup {Nil}]
    BY <1>1, ResultTypes
  <2>2. stream' \in Seq(Contracts \cup {Nil}) /\ sending' \in SUBSET (Contracts \cup {Nil})
    BY <1>1
  <2>3. known' \in Templates \cup {Nil}
    BY DEF QueryInv, TypeOK
  <2>4. QED BY <1>1, <2>1, <2>2, <2>3 DEF QueryInv, TypeOK
<1>3. CompleteUnlessFailed'
  BY <1>1 DEF CompleteUnlessFailed, Of, Reads
<1>4. PickedContractFits'
  BY <1>1 DEF PickedContractFits, Of, OnePairInForce
<1>5. QED
  BY <1>1, <1>2, <1>3, <1>4 DEF QueryInv, Configured, Calling, Streaming, Silent

\* The search under the next template id, or its end.
LEMMA Searching ==
    ASSUME QueryInv, pc = "reading", NextTemplate,
           UNCHANGED <<acs, changes, env, idTemplate, idContract, flow, known, steady>>
    PROVE  QueryInv'
<1>1. CASE template < NumTemplates
  <2>1. template + 1 \in Templates /\ Open(template + 1) /\ UNCHANGED result
    BY <1>1, SizesAssumption DEF QueryInv, TypeOK, Templates, NextTemplate
  <2>2. /\ pc' = "reading" /\ template' = template + 1
        /\ snapshot' \in SUBSET Contracts /\ sending' \in SUBSET (Contracts \cup {Nil})
        /\ stream' \in Seq(Contracts \cup {Nil}) /\ got' \in Seq(Contracts)
        /\ ended' \in BOOLEAN /\ errs' \in {"open", "error", "closed"}
        /\ inForce' \in [templates : SUBSET Templates, contracts : SUBSET Contracts]
        /\ Streaming'
    BY <2>1, Opening DEF QueryInv, Calling
  <2>3. result' = NoResult
    BY <2>1 DEF QueryInv, Calling
  <2>4. TypeOK'
    BY <2>1, <2>2 DEF QueryInv, TypeOK
  <2>5. CompleteUnlessFailed' /\ PickedContractFits'
    BY <2>3, NoResultYet
  <2>6. QED
    BY <2>1, <2>2, <2>3, <2>4, <2>5 DEF QueryInv, Configured, Calling, Silent
<1>2. CASE ~(template < NumTemplates)
  BY <1>2, EndsEmpty DEF NextTemplate, QueryInv, TypeOK
<1>3. QED BY <1>1, <1>2

\* A setter beside a search: the id in force afterwards is noted.
LEMMA SettersStep ==
    ASSUME QueryInv,
           \/ \E id \in Templates \cup {Nil} : SetAmuletRulesTemplateID(id)
           \/ \E id \in Contracts \cup {Nil} : SetAmuletRulesContractID(id)
    PROVE  QueryInv'
<1>1. /\ UNCHANGED <<acs, changes, env, pc, flow, template, known, snapshot, sending,
                     stream, ended, errs, got, result, steady>>
      /\ idTemplate' \in Templates \cup {Nil} /\ idContract' \in Contracts \cup {Nil}
      /\ pc # "configured" => inForce' = inForce
  BY DEF SetAmuletRulesTemplateID, SetAmuletRulesContractID, participant, library, channel,
         QueryInv, TypeOK
<1>2. env.template \in Templates \cup {Nil} /\ env.contract \in Contracts \cup {Nil}
  BY EnvironmentAssumption DEF QueryInv, TypeOK
<1>3. /\ inForce' \in [templates : SUBSET Templates, contracts : SUBSET Contracts]
      /\ inForce.templates \subseteq inForce'.templates /\ inForce.contracts \subseteq inForce'.contracts
      /\ pc = "configured" /\ ContractInForce' # Nil => ContractInForce' \in inForce'.contracts
  <2>0. inForce \in [templates : SUBSET Templates, contracts : SUBSET Contracts]
    BY DEF QueryInv, TypeOK
  <2>1. ASSUME NEW id \in Templates \cup {Nil}, SetAmuletRulesTemplateID(id) PROVE <1>3
    <3>1. CASE pc = "configured"
      <4>1. inForce' = [inForce EXCEPT !.templates = @ \cup ({InForce(id, env.template)} \ {Nil})]
        BY <2>1, <3>1 DEF SetAmuletRulesTemplateID
      <4>2. {InForce(id, env.template)} \ {Nil} \subseteq Templates
        BY <1>2 DEF InForce
      <4>3. ContractInForce' = ContractInForce
        BY <1>1, <2>1 DEF SetAmuletRulesTemplateID, ContractInForce, InForce
      <4>4. ContractInForce # Nil => ContractInForce \in inForce.contracts
        BY <3>1 DEF QueryInv, Configured
      <4> QED BY <2>0, <4>1, <4>2, <4>3, <4>4
    <3>2. CASE pc # "configured"
      BY <1>1, <2>0, <3>2
    <3> QED BY <3>1, <3>2
  <2>2. ASSUME NEW id \in Contracts \cup {Nil}, SetAmuletRulesContractID(id) PROVE <1>3
    <3>1. CASE pc = "configured"
      <4>1. inForce' = [inForce EXCEPT !.contracts = @ \cup ({InForce(id, env.contract)} \ {Nil})]
        BY <2>2, <3>1 DEF SetAmuletRulesContractID
      <4>2. {InForce(id, env.contract)} \ {Nil} \subseteq Contracts
        BY <1>2 DEF InForce
      <4>3. ContractInForce' = InForce(id, env.contract)
        BY <1>1, <2>2 DEF SetAmuletRulesContractID, ContractInForce, InForce
      <4> QED BY <2>0, <4>1, <4>2, <4>3
    <3>2. CASE pc # "configured"
      BY <1>1, <2>0, <3>2
    <3> QED BY <3>1, <3>2
  <2> QED BY <2>1, <2>2
<1>4. TypeOK'
  BY <1>1, <1>3 DEF QueryInv, TypeOK
<1>5. Configured'
  BY <1>1, <1>3 DEF QueryInv, Configured
<1>6. Streaming' /\ CompleteUnlessFailed'
  BY <1>1 DEF QueryInv, Streaming, CompleteUnlessFailed, Of, Reads
<1>7. PickedContractFits'
  <2>1. CASE pc = "configured"
    BY <1>1, <2>1, NoResultYet DEF QueryInv, Calling
  <2>2. CASE pc # "configured"
    BY <1>1, <2>2 DEF QueryInv, PickedContractFits, Of, OnePairInForce
  <2> QED BY <2>1, <2>2
<1>8. QED
  BY <1>1, <1>4, <1>5, <1>6, <1>7 DEF QueryInv, Calling, Silent

\* A step inside a call, or one of the library or of another goroutine: whatever stays,
\* stays in place.
LEMMA QueryStep == QueryInv /\ [Next]_vars => QueryInv'
<1> SUFFICES ASSUME QueryInv, [Next]_vars PROVE QueryInv'
  OBVIOUS
<1> USE DEF QueryInv
<1>0. 1 \in Templates
  BY SizesAssumption DEF Templates
<1>1. ASSUME NEW f \in Flows \ {"rules"}, Call(f) PROVE QueryInv'
  <2>1. /\ Open(1) /\ flow' = f /\ result' = NoResult /\ steady' = acs
        /\ UNCHANGED <<acs, changes, env, idTemplate, idContract, known>>
    BY <1>1 DEF Call, participant, config
  <2>2. /\ pc' = "reading" /\ template' = 1
        /\ snapshot' \in SUBSET Contracts /\ sending' \in SUBSET (Contracts \cup {Nil})
        /\ stream' \in Seq(Contracts \cup {Nil}) /\ got' \in Seq(Contracts)
        /\ ended' \in BOOLEAN /\ errs' \in {"open", "error", "closed"}
        /\ inForce' \in [templates : SUBSET Templates, contracts : SUBSET Contracts]
        /\ Streaming'
    BY <1>0, <2>1, Opening
  <2>3. TypeOK'
    BY <1>0, <2>1, <2>2, ResultTypes DEF TypeOK, NoResult
  <2>4. QED
    BY <2>1, <2>2, <2>3, NoResultYet DEF Configured, Calling, Silent
<1>2. CASE FindAmuletRules
  <2>1. /\ pc' = "configured" /\ flow' = "rules" /\ known' = TemplateInForce /\ got' = <<>>
        /\ inForce' = [templates |-> {TemplateInForce} \ {Nil}, contracts |-> {ContractInForce} \ {Nil}]
        /\ result' = NoResult /\ steady' = acs
        /\ UNCHANGED <<acs, changes, env, idTemplate, idContract, template, snapshot, sending,
                       stream, ended, errs>>
    BY <1>2 DEF FindAmuletRules, participant, config, library, channel
  <2>2. TemplateInForce \in Templates \cup {Nil} /\ ContractInForce \in Contracts \cup {Nil}
    BY EnvironmentAssumption DEF TypeOK, TemplateInForce, ContractInForce, InForce
  <2>3. TypeOK'
    <3>1. inForce' \in [templates : SUBSET Templates, contracts : SUBSET Contracts]
      BY <2>1, <2>2
    <3>2. got' \in Seq(Contracts) /\ flow' \in Flows
      BY <2>1 DEF Flows
    <3>3. QED BY <2>1, <2>2, <3>1, <3>2, ResultTypes DEF TypeOK, NoResult
  <2>4. Configured'
    <3>1. ContractInForce' = ContractInForce
      BY <2>1 DEF ContractInForce, InForce
    <3>2. QED BY <2>1, <2>2, <3>1 DEF Configured
  <2>5. QED
    BY <2>1, <2>3, <2>4, NoResultYet DEF Calling, Streaming, Silent
<1>3. CASE UseConfigured
  <2>1. /\ pc = "configured" /\ flow = "rules" /\ known' = Nil /\ got = <<>>
        /\ UNCHANGED <<acs, changes, env, idTemplate, idContract, flow, steady>>
    BY <1>3 DEF UseConfigured, participant, config, Configured
  <2>2. CASE known # Nil /\ ContractInForce # Nil
    <3>1. known \in inForce.templates /\ ContractInForce \in inForce.contracts
      BY <2>1, <2>2 DEF Configured
    <3>2. /\ known \in Templates /\ ContractInForce \in Contracts
          /\ OnePairInForce => ContractInForce[1] = known
      BY <3>1 DEF TypeOK, OnePairInForce
    <3>3. /\ Return("ok", known, ContractInForce)
          /\ UNCHANGED <<template, snapshot, ended, errs, got, inForce>>
      BY <1>3, <2>2 DEF UseConfigured
    <3>4. got' \in Seq(Contracts) /\ got' = <<>>
      BY <2>1, <3>3
    <3>5. QED BY <2>1, <3>1, <3>2, <3>3, <3>4, EndsWell
  <2>3. CASE Open(1) /\ UNCHANGED result
    <3>2. /\ pc' = "reading" /\ template' = 1
          /\ snapshot' \in SUBSET Contracts /\ sending' \in SUBSET (Contracts \cup {Nil})
          /\ stream' \in Seq(Contracts \cup {Nil}) /\ got' \in Seq(Contracts)
          /\ ended' \in BOOLEAN /\ errs' \in {"open", "error", "closed"}
          /\ inForce' \in [templates : SUBSET Templates, contracts : SUBSET Contracts]
          /\ Streaming'
      BY <1>0, <2>1, <2>3, Opening DEF Calling
    <3>3. TypeOK'
      BY <1>0, <2>1, <2>3, <3>2 DEF TypeOK
    <3>4. result' = NoResult
      BY <2>1, <2>3 DEF Calling
    <3>5. QED
      BY <2>1, <2>3, <3>2, <3>3, <3>4, NoResultYet DEF Configured, Calling, Silent
  <2>4. CASE Fails /\ UNCHANGED <<template, snapshot, ended, errs, got, inForce>>
    BY <2>1, <2>4, EndsEmpty DEF Fails, TypeOK
  <2>5. QED BY <1>3, <2>2, <2>3, <2>4 DEF UseConfigured
<1>4. CASE TakeResponse
  <2> DEFINE r == Head(stream)
             kept == r # Nil /\ Reads(r)
  <2>1. /\ pc = "reading" /\ stream # <<>> /\ result = NoResult
        /\ got' = IF kept THEN Append(got, r) ELSE got
        /\ UNCHANGED <<acs, changes, env, idTemplate, idContract, flow, template, known,
                       snapshot, ended, errs, steady, inForce>>
    BY <1>4 DEF TakeResponse, participant, config, Calling
  <2>2. /\ Tail(stream) \in Seq(Contracts \cup {Nil}) /\ r \in Contracts \cup {Nil}
        /\ r \in ToSet(stream) /\ ToSet(stream) = {r} \cup ToSet(Tail(stream))
    BY <2>1, ToSetHeadTail DEF TypeOK
  <2>3. kept => r \in Contracts /\ r \in snapshot /\ Reads(r)
    BY <2>1, <2>2 DEF Streaming
  <2> HIDE DEF r
  <2>4. /\ got' \in Seq(Contracts)
        /\ ToSet(got') = IF kept THEN ToSet(got) \cup {r} ELSE ToSet(got)
    <3>1. CASE kept
      BY <2>1, <2>3, <3>1, ToSetAppend DEF TypeOK
    <3>2. CASE ~kept
      BY <2>1, <3>2 DEF TypeOK
    <3> QED BY <3>1, <3>2
  <2>5. CASE pc' = "panic" /\ UNCHANGED <<channel, result>>
    <3>1. TypeOK'
      BY <2>1, <2>4, <2>5 DEF TypeOK, channel
    <3>2. QED
      BY <2>1, <2>5, <3>1, NoResultYet DEF Configured, Calling, Streaming, Silent
  <2>6. CASE kept /\ flow \in {"first", "delegate"} /\ Return("ok", template, r)
    <3>1. r \in Of(template, snapshot) /\ template \in Templates
      BY <2>1, <2>3, <2>6 DEF Streaming, Of, TypeOK
    <3>2. got' # <<>>
      BY <2>1, <2>6 DEF TypeOK
    <3>3. QED BY <2>1, <2>2, <2>4, <2>6, <3>1, <3>2, EndsWell
  <2>7. CASE Fails
    BY <2>1, <2>4, <2>7, EndsEmpty DEF Fails
  <2>8. CASE stream' = Tail(stream) /\ UNCHANGED <<pc, result, sending>>
    <3>1. TypeOK'
      BY <2>1, <2>2, <2>4, <2>8 DEF TypeOK
    <3>2. Streaming'
      <4>1. \A x \in snapshot : Reads(x) /\ x = r => kept
        <5>1. Nil \notin snapshot
          BY ContractAssumption DEF TypeOK
        <5> QED BY <5>1
      <4>2. \A x : Reads(x)' = Reads(x)
        BY <2>1 DEF Reads
      <4>3. Of(template', Contracts) = Of(template, Contracts) /\ Of(template', steady') = Of(template, steady)
        BY <2>1
      <4> QED BY <2>1, <2>2, <2>3, <2>4, <2>8, <4>1, <4>2, <4>3 DEF Streaming
    <3>3. QED
      BY <2>1, <2>8, <3>1, <3>2, NoResultYet DEF Configured, Calling, Silent
  <2>9. QED BY <1>4, <2>5, <2>6, <2>7, <2>8 DEF TakeResponse, r
<1>5. CASE StreamClosed
  <2>1. /\ pc = "reading" /\ stream = <<>> /\ ended /\ template \in Templates
        /\ UNCHANGED <<acs, changes, env, idTemplate, idContract, flow, known, steady>>
    BY <1>5 DEF StreamClosed, participant, config, TypeOK
  <2>2. /\ errs # "error" => ToSet(got) = {x \in snapshot : Reads(x)}
        /\ Of(template, steady) \subseteq snapshot
        /\ ToSet(got) \subseteq Of(template, snapshot)
    BY <2>1, ToSetEmpty DEF Streaming, Of
  <2>3. got # <<>> => /\ Head(got) \in ToSet(got) /\ Last(got) \in ToSet(got)
                      /\ Head(got) \in Contracts /\ Last(got) \in Contracts
    BY ToSetHeadTail DEF TypeOK
  <2>4. ASSUME NEW c \in Contracts \cup {Nil}, Return("ok", template, c),
               UNCHANGED <<template, snapshot, ended, errs, got, inForce>>,
               flow \in {"first", "approve", "delegate", "rules"} =>
                   got # <<>> /\ c \in ToSet(got)
        PROVE  QueryInv'
    <3>1. got' \in Seq(Contracts)
      BY <2>4 DEF TypeOK
    <3>2. QED BY <2>1, <2>2, <2>4, <3>1, EndsWell
  <2>5. CASE flow \in {"collect", "balance"}
    BY <1>5, <2>4, <2>5 DEF StreamClosed
  <2>6. CASE flow \in {"approve", "first"}
    <3>1. CASE got = <<>>
      BY <1>5, <2>1, <2>6, <3>1, EndsEmpty DEF StreamClosed, Fails, TypeOK
    <3>2. CASE got # <<>>
      BY <1>5, <2>3, <2>4, <2>6, <3>2 DEF StreamClosed
    <3>3. QED BY <3>1, <3>2
  <2>7. CASE flow = "delegate"
    <3>1. pc' = "panic"
          /\ UNCHANGED <<template, snapshot, sending, stream, ended, errs, got, result, inForce>>
      BY <1>5, <2>7 DEF StreamClosed, library, channel
    <3>2. TypeOK'
      BY <2>1, <3>1 DEF TypeOK
    <3>3. result' = NoResult
      BY <2>1, <3>1 DEF Calling
    <3>4. QED
      BY <2>1, <3>1, <3>2, <3>3, NoResultYet DEF Configured, Calling, Streaming, Silent
  <2>8. CASE flow = "rules"
    <3>1. CASE got = <<>>
      BY <1>5, <2>1, <2>8, <3>1, Searching DEF StreamClosed
    <3>2. CASE got # <<>>
      BY <1>5, <2>3, <2>4, <2>8, <3>2 DEF StreamClosed
    <3>3. QED BY <3>1, <3>2
  <2>9. QED BY <2>5, <2>6, <2>7, <2>8 DEF TypeOK, Flows
<1>6. CASE TakeError
  <2>1. /\ pc = "reading"
        /\ UNCHANGED <<acs, changes, env, idTemplate, idContract, flow, known, steady>>
    BY <1>6 DEF TakeError, participant, config
  <2>2. CASE flow = "rules"
    BY <1>6, <2>1, <2>2, Searching DEF TakeError
  <2>3. CASE flow # "rules"
    BY <1>6, <2>1, <2>3, EndsEmpty DEF TakeError, Fails, TypeOK
  <2>4. QED BY <2>2, <2>3
<1>7. CASE TakeNil \/ CtxDone
  <2>1. UNCHANGED <<acs, changes, env, idTemplate, idContract, template, snapshot, ended,
                    errs, flow, known, steady, got, inForce>>
    BY <1>7 DEF TakeNil, CtxDone, participant, config
  <2>2. Return("nothing", Nil, Nil) \/ Return("error", Nil, Nil)
    BY <1>7 DEF TakeNil, CtxDone, Fails
  <2>3. QED BY <2>1, <2>2, EndsEmpty DEF TypeOK
<1>8. ASSUME NEW c \in Contracts \cup {Nil}, Deliver(c) PROVE QueryInv'
  <2>1. /\ pc = "reading" /\ ~ended /\ c \in sending
        /\ sending' = sending \ {c} /\ stream' = Append(stream, c)
        /\ UNCHANGED <<acs, changes, env, idTemplate, idContract, pc, flow, template, known,
                       snapshot, ended, errs, got, result, steady, inForce>>
    BY <1>8 DEF Deliver, participant, config
  <2>2. stream' \in Seq(Contracts \cup {Nil}) /\ ToSet(stream') = ToSet(stream) \cup {c}
    BY <2>1, ToSetAppend DEF TypeOK
  <2>3. TypeOK'
    BY <2>1, <2>2 DEF TypeOK
  <2>4. Streaming'
    BY <2>1, <2>2 DEF Streaming, Of, Reads
  <2>5. QED
    BY <2>1, <2>3, <2>4, NoResultYet DEF Configured, Calling, Silent
<1>9. CASE Finish \/ Fail
  <2>1. /\ pc = "reading" /\ (ended' => ended \/ sending = {} \/ errs' = "error")
        /\ (errs = "error" => errs' = "error")
        /\ ended' \in BOOLEAN /\ errs' \in {"open", "error", "closed"}
        /\ UNCHANGED <<acs, changes, env, idTemplate, idContract, pc, flow, template, known,
                       snapshot, sending, stream, got, result, steady, inForce>>
    <3>1. ended \in BOOLEAN /\ errs \in {"open", "error", "closed"}
      BY DEF TypeOK
    <3>2. CASE Finish
      BY <3>1, <3>2 DEF Finish, participant, config
    <3>3. CASE Fail
      BY <3>1, <3>3 DEF Fail, participant, config
    <3>4. QED BY <1>9, <3>2, <3>3
  <2>2. TypeOK'
    BY <2>1 DEF TypeOK
  <2>3. Streaming'
    BY <2>1 DEF Streaming, Of, Reads
  <2>4. QED
    BY <2>1, <2>2, <2>3, NoResultYet DEF Configured, Calling, Silent
<1>10. ASSUME NEW c \in Contracts, Change(c) PROVE QueryInv'
  <2>1. /\ changes' \in 0..MaxChanges /\ acs' \in SUBSET Contracts
        /\ acs \ {c} \subseteq acs' /\ steady' = steady \ {c}
        /\ UNCHANGED <<env, idTemplate, idContract, snapshot, sending, stream, ended, errs,
                       pc, flow, template, known, got, result, inForce>>
    BY <1>10, SizesAssumption DEF Change, config, library, channel, TypeOK
  <2>2. TypeOK'
    BY <2>1 DEF TypeOK
  <2>3. Of(template, steady)' \subseteq Of(template, steady)
    BY <2>1 DEF Of
  <2>4. Streaming' /\ CompleteUnlessFailed'
    BY <2>1, <2>3 DEF Streaming, CompleteUnlessFailed, Of, Reads
  <2>5. Configured'
    BY <2>1 DEF Configured, ContractInForce, InForce
  <2>6. PickedContractFits'
    BY <2>1 DEF PickedContractFits, Of, OnePairInForce
  <2>7. QED
    BY <2>1, <2>2, <2>4, <2>5, <2>6 DEF Calling, Silent
<1>11. ASSUME NEW p \in Pairs, SetAmuletRulesTemplateID(p[1]) \/ SetAmuletRulesContractID(p)
       PROVE  QueryInv'
  BY <1>11, SettersStep, ContractAssumption
<1>12. CASE SetAmuletRulesTemplateID(Nil) \/ SetAmuletRulesContractID(Nil)
  BY <1>12, SettersStep
<1>13. CASE CallWithoutFilter
  <2>1. /\ pc' = "panic" /\ flow' = "collect" /\ result' = NoResult
        /\ UNCHANGED <<acs, changes, env, idTemplate, idContract, snapshot, sending, stream,
                       ended, errs, template, known, got, steady, inForce>>
    BY <1>13 DEF CallWithoutFilter, participant, config, library, channel
  <2>2. TypeOK'
    BY <2>1, ResultTypes DEF TypeOK, NoResult, Flows
  <2>3. QED
    BY <2>1, <2>2, NoResultYet DEF Configured, Calling, Streaming, Silent
<1>14. CASE UNCHANGED vars
  <2>1. Streaming' /\ CompleteUnlessFailed'
    BY <1>14 DEF vars, Streaming, CompleteUnlessFailed, Of, Reads
  <2>2. Configured' /\ PickedContractFits'
    BY <1>14 DEF vars, Configured, ContractInForce, InForce, PickedContractFits, Of, OnePairInForce
  <2>3. QED
    BY <1>14, <2>1, <2>2 DEF vars, TypeOK, Calling, Silent
<1>15. QED
  BY <1>1, <1>2, <1>3, <1>4, <1>5, <1>6, <1>7, <1>8, <1>9, <1>10, <1>11, <1>12, <1>13,
     <1>14 DEF Next, Work

LEMMA QueryInvHolds == Spec => []QueryInv
BY QueryInit, QueryStep, PTL DEF Spec

\* The caller's variables and the library's stay typed.
THEOREM Typing == Spec => []TypeOK
<1>1. QueryInv => TypeOK
  BY DEF QueryInv
<1>2. QED BY QueryInvHolds, <1>1, PTL

\* Whatever the channels hold and however many contracts there are, a query that reports
\* success over a stream that did not fail has all that it keeps of what was active when
\* the stream began.
THEOREM CompleteUnlessFailedHolds == Spec => []CompleteUnlessFailed
<1>1. QueryInv => CompleteUnlessFailed
  BY DEF QueryInv
<1>2. QED BY QueryInvHolds, <1>1, PTL

\* Through any number of template ids, what a search finds fits its template id; beside
\* applications that store any ids in any order, over any environment, what it takes from
\* the configuration was in force during the search and fits if all that was does.
THEOREM PickedContractFitsHolds == Spec => []PickedContractFits
<1>1. QueryInv => PickedContractFits
  BY DEF QueryInv
<1>2. QED BY QueryInvHolds, <1>1, PTL

-----------------------------------------------------------------------------
(* Polling: a goroutine that grants alone grants once, and, with any       *)
(* number of goroutines, a right that is there is found.                   *)

LookingFor == {"lookup", "grant"}

\* Until it ends a call has no result.
Pending == \A w \in Workers : at[w] # "idle" => outcome[w] = "none"

\* Methods that look for a right, and what they know of it.
Looking ==
    \A w \in Workers :
        /\ at[w] \in {"start", "list", "command", "submit"} => method[w] \in LookingFor
        /\ at[w] \in {"command", "submit"} => method[w] = "grant" /\ ~granting[w]
        /\ at[w] # "idle" /\ method[w] \in LookingFor /\ held[w] => rights[partyID] > 0
        /\ at[w] = "list" /\ (held[w] \/ sets = 0) => want[w] = partyID

\* A grant that was taken is on its way or on the ledger.
Granted ==
    \A w \in Workers : granting[w] /\ sets = 0 => rights[partyID] + inflight[partyID] >= 1

\* A call that found nothing had nothing to find.
NilIsTrue ==
    \A w \in Workers : faults = 0 /\ outcome[w] = "nil" => ~held[w] /\ ~(granting[w] /\ sets = 0)

FindInv == PollingTypeOK /\ Pending /\ Looking /\ Granted /\ NilIsTrue

\* One goroutine alone: its grant is under way only while it looks for it, and it grants
\* only what is not there.
Single ==
    sets = 0 /\ faults = 0 =>
        /\ \A p \in Parties : rights[p] + inflight[p] <= 1
        /\ \A p \in Parties : inflight[p] > 0 =>
             p = partyID /\ \A w \in Workers : at[w] \in {"start", "list"} /\ granting[w]
        /\ \A w \in Workers :
             at[w] \in {"command", "submit"} => rights[partyID] = 0

-----------------------------------------------------------------------------
\* What one attempt does: it finds the right, goes on, or comes back without.
LEMMA AttemptCases ==
    ASSUME PollingTypeOK, NEW w \in Workers, Attempt(w)
    PROVE  /\ at[w] = "list" /\ faults \in Nat /\ faults' \in faults..MaxFaults
           /\ UNCHANGED <<partyID, sets, inflight, rights, preapproved, method, want, limit,
                          provider, granting, held>>
           /\ \/ Visible(w) /\ Ends(w, "right") /\ UNCHANGED attempt
              \/ /\ attempt' = [attempt EXCEPT ![w] = attempt[w] + 1]
                 /\ attempt[w] < limit[w] /\ UNCHANGED <<at, outcome>>
              \/ /\ ComesBackNil(w) /\ UNCHANGED attempt
                 /\ faults' = 0 => ~Visible(w) /\ ~(granting[w] /\ inflight[want[w]] > 0)
<1>1. /\ faults \in Nat /\ faults <= MaxFaults /\ MaxFaults \in Nat
      /\ attempt[w] \in Nat /\ limit[w] \in Nat
  BY BoundsAssumption DEF PollingTypeOK
<1>2. UNCHANGED faults \/ Fault
  BY DEF Attempt
<1>3. faults' \in faults..MaxFaults
  BY <1>1, <1>2 DEF Fault
<1>4. /\ at[w] = "list"
      /\ UNCHANGED <<partyID, sets, inflight, rights, preapproved, method, want, limit,
                     provider, granting, held>>
  BY DEF Attempt
<1>5. Fault => faults' # 0
  BY <1>1 DEF Fault
<1>6. \/ Visible(w) /\ Ends(w, "right") /\ UNCHANGED attempt
      \/ /\ attempt' = [attempt EXCEPT ![w] = attempt[w] + 1]
         /\ ~LastAttempt(w) /\ UNCHANGED <<at, outcome>>
      \/ /\ ComesBackNil(w) /\ UNCHANGED attempt
         /\ (Visible(w) \/ (granting[w] /\ inflight[want[w]] > 0)) => Fault
  BY DEF Attempt
<1>7. ~LastAttempt(w) => attempt[w] < limit[w]
  BY <1>1 DEF LastAttempt
<1>8. QED BY <1>1, <1>3, <1>4, <1>5, <1>6, <1>7

\* What a submission does: it is taken, taken unseen, or not taken.
LEMMA SubmitCases ==
    ASSUME PollingTypeOK, NEW w \in Workers, Submit(w)
    PROVE  /\ at[w] = "submit"
           /\ UNCHANGED <<partyID, sets, rights, preapproved, method, want, attempt, provider, held>>
           /\ \/ /\ inflight' = [inflight EXCEPT ![partyID] = inflight[partyID] + 1]
                 /\ at' = [at EXCEPT ![w] = "start"]
                 /\ granting' = [granting EXCEPT ![w] = TRUE]
                 /\ limit' = [limit EXCEPT ![w] = Lookups]
                 /\ UNCHANGED <<outcome, faults>>
              \/ /\ inflight' = [inflight EXCEPT ![partyID] = inflight[partyID] + 1]
                 /\ faults' = faults + 1 /\ faults < MaxFaults
                 /\ Ends(w, "error") /\ UNCHANGED <<granting, limit>>
              \/ Ends(w, "error") /\ UNCHANGED <<inflight, granting, limit, faults>>
BY DEF Submit, GoTo, Fault

-----------------------------------------------------------------------------
\* A return keeps the types.
LEMMA ReturnTypes ==
    ASSUME PollingTypeOK, NEW w \in Workers, NEW how \in {"right", "nil", "error", "gone"}, Ends(w, how)
    PROVE  /\ at' = [at EXCEPT ![w] = "idle"] /\ outcome' = [outcome EXCEPT ![w] = how]
           /\ at' \in [Workers -> {"idle", "start", "list", "command", "submit", "poll", "sleep"}]
           /\ outcome' \in [Workers -> {"none", "right", "nil", "error", "gone"}]
BY DEF Ends, GoTo, PollingTypeOK

LEMMA TypeInit == PollingInit => PollingTypeOK
<1> SUFFICES ASSUME PollingInit PROVE PollingTypeOK
  OBVIOUS
<1>1. /\ 0 \in 0..MaxSets /\ 0 \in 0..MaxFaults /\ 1 \in 1..Lookups /\ 0..1 \subseteq Nat /\ 0 \in Nat
  BY BoundsAssumption
<1>2. /\ partyID \in Parties /\ sets \in 0..MaxSets /\ preapproved \in BOOLEAN
      /\ faults \in 0..MaxFaults /\ inflight \in [Parties -> Nat] /\ rights \in [Parties -> Nat]
  BY <1>1 DEF PollingInit
<1>3. /\ at \in [Workers -> {"idle", "start", "list", "command", "submit", "poll", "sleep"}]
      /\ method \in [Workers -> Methods] /\ want \in [Workers -> Parties]
      /\ provider \in [Workers -> Parties] /\ attempt \in [Workers -> 1..Lookups]
      /\ limit \in [Workers -> {1, Lookups}] /\ granting \in [Workers -> BOOLEAN]
      /\ held \in [Workers -> BOOLEAN]
      /\ outcome \in [Workers -> {"none", "right", "nil", "error", "gone"}]
  BY <1>1 DEF PollingInit, Methods
<1>4. QED BY <1>2, <1>3 DEF PollingTypeOK

LEMMA TypeStep == PollingTypeOK /\ [PollingNext]_pollingVars => PollingTypeOK'
<1> SUFFICES ASSUME PollingTypeOK, [PollingNext]_pollingVars PROVE PollingTypeOK'
  OBVIOUS
<1>0. Lookups \in Nat \ {0} /\ MaxFaults \in Nat /\ MaxSets \in Nat
  BY BoundsAssumption
<1>1. ASSUME NEW w \in Workers, NEW f \in Methods, CallPolling(w, f) PROVE PollingTypeOK'
  <2>1. (rights[partyID] > 0) \in BOOLEAN
    OBVIOUS
  <2>2. CASE f \in {"lookup", "grant"}
    <3>1. held' = [held EXCEPT ![w] = rights[partyID] > 0]
      BY <1>1, <2>2 DEF CallPolling
    <3>2. held' \in [Workers -> BOOLEAN]
      BY <2>1, <3>1, Zenon DEF PollingTypeOK
    <3>3. QED BY <1>0, <1>1, <2>2, <3>2 DEF CallPolling, GoTo, ledger, PollingTypeOK
  <2>3. CASE f \notin {"lookup", "grant"}
    <3>1. held' = [held EXCEPT ![w] = preapproved]
      BY <1>1, <2>3 DEF CallPolling
    <3>2. held' \in [Workers -> BOOLEAN]
      BY <3>1, Zenon DEF PollingTypeOK
    <3>3. QED BY <1>0, <1>1, <2>3, <3>2 DEF CallPolling, GoTo, ledger, PollingTypeOK
  <2>4. QED BY <2>2, <2>3
<1>2. ASSUME NEW w \in Workers, StartLookup(w) PROVE PollingTypeOK'
  BY <1>0, <1>2 DEF StartLookup, GoTo, ledger, PollingTypeOK
<1>3. ASSUME NEW w \in Workers, Attempt(w) PROVE PollingTypeOK'
  <2>1. /\ faults' \in 0..MaxFaults
        /\ UNCHANGED <<partyID, sets, inflight, rights, preapproved, method, want, limit,
                       provider, granting, held>>
    BY <1>0, <1>3, AttemptCases
  <2>2. CASE Ends(w, "right") /\ UNCHANGED attempt
    BY <2>1, <2>2, ReturnTypes DEF PollingTypeOK
  <2>3. CASE /\ attempt' = [attempt EXCEPT ![w] = attempt[w] + 1]
             /\ attempt[w] < limit[w] /\ UNCHANGED <<at, outcome>>
    <3>1. attempt[w] + 1 \in 1..Lookups
      BY <1>0, <2>3 DEF PollingTypeOK
    <3>2. QED BY <2>1, <2>3, <3>1 DEF PollingTypeOK
  <2>4. CASE ComesBackNil(w) /\ UNCHANGED attempt
    <3>1. CASE Ends(w, "nil")
      BY <2>1, <2>4, <3>1, ReturnTypes DEF PollingTypeOK
    <3>2. CASE GoTo(w, "command") /\ UNCHANGED outcome
      BY <2>1, <2>4, <3>2 DEF GoTo, PollingTypeOK
    <3>3. QED BY <2>4, <3>1, <3>2 DEF ComesBackNil
  <2>5. QED BY <1>3, <2>2, <2>3, <2>4, AttemptCases
<1>4. ASSUME NEW w \in Workers, SelfGrant(w) PROVE PollingTypeOK'
  BY <1>4 DEF SelfGrant, GoTo, ledger, PollingTypeOK
<1>5. ASSUME NEW w \in Workers, Submit(w) PROVE PollingTypeOK'
  <2>1. /\ UNCHANGED <<partyID, sets, rights, preapproved, method, want, attempt, provider, held>>
        /\ inflight' \in [Parties -> Nat] /\ faults' \in 0..MaxFaults
    BY <1>0, <1>5, SubmitCases DEF PollingTypeOK
  <2>2. CASE /\ at' = [at EXCEPT ![w] = "start"]
             /\ granting' = [granting EXCEPT ![w] = TRUE]
             /\ limit' = [limit EXCEPT ![w] = Lookups] /\ UNCHANGED outcome
    BY <2>1, <2>2 DEF PollingTypeOK
  <2>3. CASE Ends(w, "error") /\ UNCHANGED <<granting, limit>>
    BY <2>1, <2>3, ReturnTypes DEF PollingTypeOK
  <2>4. QED BY <1>5, <2>2, <2>3, SubmitCases
<1>6. ASSUME NEW w \in Workers, Poll(w) \/ Wake(w) \/ Deadline(w) PROVE PollingTypeOK'
  <2>1. UNCHANGED <<partyID, sets, inflight, rights, preapproved, faults, method, want, attempt,
                    limit, provider, granting, held>>
    BY <1>6 DEF Poll, Wake, Deadline, ledger, locals
  <2>2. CASE \E how \in {"gone", "error"} : Ends(w, how)
    BY <2>1, <2>2, ReturnTypes DEF PollingTypeOK
  <2>3. CASE \E label \in {"sleep", "poll"} : GoTo(w, label) /\ UNCHANGED outcome
    BY <2>1, <2>3 DEF GoTo, PollingTypeOK
  <2>4. QED BY <1>6, <2>2, <2>3 DEF Poll, Wake, Deadline
<1>7. ASSUME NEW p \in Parties, Commit(p) PROVE PollingTypeOK'
  BY <1>7 DEF Commit, locals, PollingTypeOK
<1>8. ASSUME NEW p \in Parties, SetPartyID(p) PROVE PollingTypeOK'
  <2>1. held' \in [Workers -> BOOLEAN]
    BY <1>8 DEF SetPartyID, PollingTypeOK
  <2>2. sets' \in 0..MaxSets
    BY <1>0, <1>8 DEF SetPartyID, PollingTypeOK
  <2>3. QED BY <1>8, <2>1, <2>2 DEF SetPartyID, ledger, locals, PollingTypeOK
<1>9. CASE ChangePreapproval
  <2>1. held' \in [Workers -> BOOLEAN] /\ preapproved' \in BOOLEAN
    BY <1>9 DEF ChangePreapproval, PollingTypeOK
  <2>2. QED BY <1>9, <2>1 DEF ChangePreapproval, locals, PollingTypeOK
<1>10. CASE UNCHANGED pollingVars
  BY <1>10 DEF pollingVars, PollingTypeOK
<1>11. QED
  BY <1>1, <1>2, <1>3, <1>4, <1>5, <1>6, <1>7, <1>8, <1>9, <1>10 DEF PollingNext, Step

\* The controller's variables stay typed, for any goroutines, parties and bounds.
THEOREM PollingTyping == PollingSpec => []PollingTypeOK
BY TypeInit, TypeStep, PTL DEF PollingSpec

-----------------------------------------------------------------------------
LEMMA FindInit == PollingInit => FindInv
<1> SUFFICES ASSUME PollingInit PROVE FindInv
  OBVIOUS
<1>1. \A w \in Workers : at[w] = "idle" /\ ~held[w] /\ ~granting[w] /\ outcome[w] = "none"
  BY DEF PollingInit
<1>2. QED BY <1>1, TypeInit DEF FindInv, Pending, Looking, Granted, NilIsTrue

LEMMA FindStep == FindInv /\ [PollingNext]_pollingVars => FindInv'
<1> SUFFICES ASSUME FindInv, [PollingNext]_pollingVars PROVE FindInv'
  OBVIOUS
<1>0. PollingTypeOK /\ PollingTypeOK'
  BY TypeStep DEF FindInv
<1> USE DEF LookingFor
<1>1. ASSUME NEW w \in Workers, NEW f \in Methods, CallPolling(w, f) PROVE FindInv'
  <2>1. /\ at' = [at EXCEPT ![w] = IF f \in {"lookup", "grant"} THEN "start" ELSE "poll"]
        /\ method' = [method EXCEPT ![w] = f] /\ granting' = [granting EXCEPT ![w] = FALSE]
        /\ outcome' = [outcome EXCEPT ![w] = "none"]
        /\ UNCHANGED <<partyID, sets, inflight, rights, faults, want>>
        /\ \A v \in Workers \ {w} : held'[v] = held[v]
        /\ f \in LookingFor /\ held'[w] => rights[partyID] > 0
    BY <1>0, <1>1 DEF CallPolling, GoTo, ledger, PollingTypeOK
  <2>2. QED BY <1>0, <2>1 DEF FindInv, PollingTypeOK, Pending, Looking, Granted, NilIsTrue
<1>2. ASSUME NEW w \in Workers, StartLookup(w) PROVE FindInv'
  BY <1>0, <1>2 DEF StartLookup, GoTo, ledger, FindInv, PollingTypeOK, Pending, Looking, Granted,
                    NilIsTrue
<1>3. ASSUME NEW w \in Workers, Attempt(w) PROVE FindInv'
  <2>1. /\ at[w] = "list" /\ (faults' = 0 => faults = 0)
        /\ UNCHANGED <<partyID, sets, inflight, rights, method, want, granting, held>>
    BY <1>0, <1>3, AttemptCases
  <2>2. at[w] = "list" /\ outcome[w] = "none" /\ method[w] \in LookingFor
    BY <2>1 DEF FindInv, Pending, Looking
  <2>3. Granted'
    BY <2>1 DEF FindInv, Granted
  <2>4. CASE Ends(w, "right")
    <3>1. /\ at' = [at EXCEPT ![w] = "idle"] /\ outcome' = [outcome EXCEPT ![w] = "right"]
      BY <2>4 DEF Ends, GoTo
    <3>2. QED BY <1>0, <2>1, <2>3, <3>1 DEF FindInv, PollingTypeOK, Pending, Looking, NilIsTrue
  <2>5. CASE UNCHANGED <<at, outcome>>
    BY <1>0, <2>1, <2>3, <2>5 DEF FindInv, Pending, Looking, NilIsTrue
  <2>6. CASE ComesBackNil(w)
             /\ (faults' = 0 => ~Visible(w) /\ ~(granting[w] /\ inflight[want[w]] > 0))
    <3>1. CASE method[w] = "grant" /\ ~granting[w] /\ GoTo(w, "command") /\ UNCHANGED outcome
      BY <1>0, <2>1, <2>2, <2>3, <3>1 DEF GoTo, FindInv, PollingTypeOK, Pending, Looking, NilIsTrue
    <3>2. CASE Ends(w, "nil")
      <4>1. at' = [at EXCEPT ![w] = "idle"] /\ outcome' = [outcome EXCEPT ![w] = "nil"]
        BY <3>2 DEF Ends, GoTo
      <4>2. faults' = 0 => ~held[w]
        BY <2>1, <2>2, <2>6 DEF Visible, FindInv, Looking
      <4>3. faults' = 0 => ~(granting[w] /\ sets = 0)
        <5>1. SUFFICES ASSUME faults' = 0, granting[w], sets = 0 PROVE FALSE
          OBVIOUS
        <5>2. want[w] = partyID
          BY <2>1, <5>1 DEF FindInv, Looking
        <5>3. rights[partyID] + inflight[partyID] >= 1
          BY <5>1 DEF FindInv, Granted
        <5>4. rights[partyID] \in Nat /\ inflight[partyID] \in Nat
          BY <1>0 DEF PollingTypeOK
        <5>5. ~(rights[partyID] > 0) /\ ~(inflight[partyID] > 0)
          BY <2>6, <5>1, <5>2 DEF Visible
        <5>6. QED BY <5>3, <5>4, <5>5
      <4>4. NilIsTrue'
        BY <1>0, <2>1, <4>1, <4>2, <4>3 DEF FindInv, NilIsTrue, PollingTypeOK
      <4>5. QED BY <1>0, <2>1, <2>3, <4>1, <4>4 DEF FindInv, PollingTypeOK, Pending, Looking
    <3>3. QED BY <2>6, <3>1, <3>2 DEF ComesBackNil
  <2>7. QED BY <1>0, <1>3, <2>4, <2>5, <2>6, AttemptCases
<1>4. ASSUME NEW w \in Workers, SelfGrant(w) PROVE FindInv'
  BY <1>0, <1>4 DEF SelfGrant, GoTo, ledger, FindInv, PollingTypeOK, Pending, Looking, Granted, NilIsTrue
<1>5. ASSUME NEW w \in Workers, Submit(w) PROVE FindInv'
  <2>1. /\ at[w] = "submit" /\ outcome[w] = "none" /\ method[w] = "grant"
        /\ UNCHANGED <<partyID, sets, rights, method, want, held>>
    BY <1>0, <1>5, SubmitCases DEF FindInv, Pending, Looking
  <2>2. faults \in Nat /\ (faults' = 0 => faults = 0)
    BY <1>0, <1>5, SubmitCases DEF PollingTypeOK
  <2>3. CASE /\ inflight' = [inflight EXCEPT ![partyID] = inflight[partyID] + 1]
             /\ at' = [at EXCEPT ![w] = "start"]
             /\ granting' = [granting EXCEPT ![w] = TRUE] /\ UNCHANGED outcome
    <3>1. rights[partyID] + inflight'[partyID] >= 1
      BY <1>0, <2>3 DEF PollingTypeOK
    <3>2. Granted'
      BY <2>1, <3>1 DEF Granted
    <3>3. NilIsTrue'
      BY <1>0, <2>1, <2>2, <2>3 DEF FindInv, NilIsTrue, PollingTypeOK
    <3>4. QED BY <1>0, <2>1, <2>3, <3>2, <3>3 DEF FindInv, PollingTypeOK, Pending, Looking
  <2>4. CASE /\ \/ inflight' = [inflight EXCEPT ![partyID] = inflight[partyID] + 1]
                \/ UNCHANGED inflight
             /\ Ends(w, "error") /\ UNCHANGED granting
    <3>1. at' = [at EXCEPT ![w] = "idle"] /\ outcome' = [outcome EXCEPT ![w] = "error"]
      BY <2>4 DEF Ends, GoTo
    <3>2. Granted'
      BY <1>0, <2>1, <2>4 DEF FindInv, Granted, PollingTypeOK
    <3>3. NilIsTrue'
      BY <1>0, <2>1, <2>2, <2>4, <3>1 DEF FindInv, NilIsTrue, PollingTypeOK
    <3>4. QED BY <1>0, <2>1, <2>4, <3>1, <3>2, <3>3 DEF FindInv, PollingTypeOK, Pending, Looking
  <2>5. QED BY <1>0, <1>5, <2>3, <2>4, SubmitCases
<1>6. ASSUME NEW w \in Workers, Poll(w) \/ Wake(w) \/ Deadline(w) PROVE FindInv'
  <2>1. /\ at[w] \in {"poll", "sleep"}
        /\ UNCHANGED <<partyID, sets, inflight, rights, faults, method, want, granting, held>>
    BY <1>6 DEF Poll, Wake, Deadline, ledger, locals
  <2>2. outcome[w] = "none"
    BY <2>1 DEF FindInv, Pending
  <2>3. CASE \E how \in {"gone", "error"} : Ends(w, how)
    <3>1. PICK how \in {"gone", "error"} : Ends(w, how)
      BY <2>3
    <3>2. at' = [at EXCEPT ![w] = "idle"] /\ outcome' = [outcome EXCEPT ![w] = how]
      BY <3>1 DEF Ends, GoTo
    <3>3. QED
      BY <1>0, <2>1, <3>2 DEF FindInv, PollingTypeOK, Pending, Looking, Granted, NilIsTrue
  <2>4. CASE \E label \in {"sleep", "poll"} : GoTo(w, label) /\ UNCHANGED outcome
    <3>1. PICK label \in {"sleep", "poll"} : GoTo(w, label) /\ UNCHANGED outcome
      BY <2>4
    <3>2. QED
      BY <1>0, <2>1, <2>2, <3>1 DEF GoTo, FindInv, PollingTypeOK, Pending, Looking, Granted, NilIsTrue
  <2>5. QED BY <1>6, <2>3, <2>4 DEF Poll, Wake, Deadline
<1>7. ASSUME NEW p \in Parties, Commit(p) PROVE FindInv'
  <2>1. /\ UNCHANGED <<partyID, sets, faults, at, method, want, granting, outcome, held>>
        /\ rights'[partyID] >= rights[partyID]
        /\ rights'[partyID] + inflight'[partyID] = rights[partyID] + inflight[partyID]
    BY <1>0, <1>7 DEF Commit, locals, PollingTypeOK
  <2>2. rights[partyID] > 0 => rights'[partyID] > 0
    BY <1>0, <2>1 DEF PollingTypeOK
  <2>3. QED BY <1>0, <2>1, <2>2 DEF FindInv, Pending, Looking, Granted, NilIsTrue
<1>8. ASSUME NEW p \in Parties, SetPartyID(p) PROVE FindInv'
  <2>1. /\ UNCHANGED <<inflight, rights, faults, at, method, want, granting, outcome>>
        /\ sets' # 0
    BY <1>0, <1>8 DEF SetPartyID, ledger, locals, PollingTypeOK
  <2>2. \A w \in Workers : held'[w] => held[w] /\ method[w] \notin LookingFor
    BY <1>8 DEF SetPartyID
  <2>3. QED BY <1>0, <2>1, <2>2 DEF FindInv, Pending, Looking, Granted, NilIsTrue
<1>9. CASE ChangePreapproval
  <2>1. /\ UNCHANGED <<partyID, sets, inflight, rights, faults, at, method, want, granting, outcome>>
        /\ \A w \in Workers : held'[w] => held[w]
    BY <1>9 DEF ChangePreapproval, locals
  <2>2. QED BY <1>0, <2>1 DEF FindInv, Pending, Looking, Granted, NilIsTrue
<1>10. CASE UNCHANGED pollingVars
  BY <1>0, <1>10 DEF pollingVars, FindInv, Pending, Looking, Granted, NilIsTrue
<1>11. QED
  BY <1>1, <1>2, <1>3, <1>4, <1>5, <1>6, <1>7, <1>8, <1>9, <1>10 DEF PollingNext, Step

\* With any number of goroutines and parties, and whoever sets the party when: while
\* nothing fails, LookupFeaturedApps and the lookups of a grant do not miss a right that
\* was there all along or that they granted themselves.
THEOREM RightIsFoundHolds == PollingSpec => []RightIsFound
<1>1. FindInv => RightIsFound
  BY DEF FindInv, NilIsTrue, RightIsFound
<1>2. QED BY <1>1, FindInit, FindStep, PTL DEF PollingSpec

-----------------------------------------------------------------------------
LEMMA SingleStep ==
    ASSUME \A v, w \in Workers : v = w
    PROVE  FindInv /\ Single /\ [PollingNext]_pollingVars => Single'
<1> SUFFICES ASSUME FindInv, Single, [PollingNext]_pollingVars, sets' = 0, faults' = 0
             PROVE  Single'
  BY DEF Single
<1>0. PollingTypeOK /\ PollingTypeOK'
  BY TypeStep DEF FindInv
<1>a. sets = 0 /\ faults = 0 /\ partyID' = partyID
  <2>1. sets \in Nat /\ faults \in Nat
    BY <1>0 DEF PollingTypeOK
  <2>2. ASSUME NEW w \in Workers, Attempt(w) PROVE sets = 0 /\ faults = 0 /\ partyID' = partyID
    BY <1>0, <2>2, AttemptCases
  <2>3. ASSUME NEW w \in Workers, Submit(w) PROVE sets = 0 /\ faults = 0 /\ partyID' = partyID
    BY <1>0, <2>1, <2>3, SubmitCases
  <2>4. ASSUME NEW w \in Workers,
               \/ StartLookup(w) \/ SelfGrant(w) \/ Poll(w) \/ Wake(w) \/ Deadline(w)
               \/ \E f \in Methods : CallPolling(w, f)
        PROVE  UNCHANGED <<sets, faults, partyID>>
    BY <2>4 DEF StartLookup, SelfGrant, Poll, Wake, Deadline, CallPolling, ledger
  <2>5. ASSUME NEW p \in Parties, Commit(p) PROVE UNCHANGED <<sets, faults, partyID>>
    BY <2>5 DEF Commit
  <2>6. ASSUME NEW p \in Parties, SetPartyID(p) PROVE FALSE
    BY <2>1, <2>6 DEF SetPartyID
  <2>7. CASE ChangePreapproval \/ UNCHANGED pollingVars
    BY <2>7 DEF ChangePreapproval, pollingVars
  <2>8. QED BY <2>2, <2>3, <2>4, <2>5, <2>6, <2>7 DEF PollingNext, Step
<1>b. /\ \A p \in Parties : rights[p] + inflight[p] <= 1
      /\ \A p \in Parties : inflight[p] > 0 =>
           p = partyID /\ \A w \in Workers : at[w] \in {"start", "list"} /\ granting[w]
      /\ \A w \in Workers : at[w] \in {"command", "submit"} => rights[partyID] = 0
  BY <1>a DEF Single
<1>c. partyID \in Parties /\ \A p \in Parties : rights[p] \in Nat /\ inflight[p] \in Nat
  BY <1>0 DEF PollingTypeOK
<1>1. ASSUME NEW w \in Workers, NEW f \in Methods, CallPolling(w, f) PROVE Single'
  <2>1. at[w] = "idle" /\ UNCHANGED <<inflight, rights>>
        /\ at'[w] \in {"start", "poll"}
    BY <1>0, <1>1 DEF CallPolling, GoTo, ledger, PollingTypeOK
  <2>2. QED BY <1>a, <1>b, <2>1 DEF Single
<1>2. ASSUME NEW w \in Workers, StartLookup(w) PROVE Single'
  <2>1. at[w] = "start" /\ UNCHANGED <<inflight, rights, granting>> /\ at'[w] = "list"
    BY <1>0, <1>2 DEF StartLookup, GoTo, ledger, PollingTypeOK
  <2>2. QED BY <1>a, <1>b, <2>1 DEF Single
<1>3. ASSUME NEW w \in Workers, Attempt(w) PROVE Single'
  <2>1. /\ at[w] = "list" /\ UNCHANGED <<inflight, rights, granting, want>>
    BY <1>0, <1>3, AttemptCases
  <2>2. want[w] = partyID
    BY <1>a, <2>1 DEF FindInv, Looking
  <2>3. inflight[partyID] > 0 => granting[w]
    BY <1>b, <1>c
  <2>4. CASE Ends(w, "right") /\ Visible(w)
    <3>1. rights[partyID] > 0 /\ at'[w] = "idle"
      BY <1>0, <2>2, <2>4 DEF Visible, Ends, GoTo, PollingTypeOK
    <3>2. inflight[partyID] = 0
      BY <1>b, <1>c, <3>1
    <3>3. QED BY <1>a, <1>b, <1>c, <2>1, <3>1, <3>2 DEF Single
  <2>5. CASE UNCHANGED <<at, outcome>>
    BY <1>a, <1>b, <2>1, <2>5 DEF Single
  <2>6. CASE ComesBackNil(w)
             /\ ~Visible(w) /\ ~(granting[w] /\ inflight[want[w]] > 0)
    <3>1. rights[partyID] = 0 /\ inflight[partyID] = 0
      BY <1>c, <2>2, <2>3, <2>6 DEF Visible
    <3>2. \A p \in Parties : ~(inflight[p] > 0)
      BY <1>b, <1>c, <3>1
    <3>3. QED BY <1>a, <1>b, <2>1, <3>1, <3>2 DEF Single
  <2>7. QED BY <1>0, <1>3, <2>4, <2>5, <2>6, AttemptCases
<1>4. ASSUME NEW w \in Workers, SelfGrant(w) PROVE Single'
  <2>1. at[w] = "command" /\ UNCHANGED <<inflight, rights, granting>> /\ at'[w] = "submit"
    BY <1>0, <1>4 DEF SelfGrant, GoTo, ledger, PollingTypeOK
  <2>2. QED BY <1>a, <1>b, <2>1 DEF Single
<1>5. ASSUME NEW w \in Workers, Submit(w) PROVE Single'
  <2>1. at[w] = "submit" /\ UNCHANGED rights
    BY <1>0, <1>5, SubmitCases
  <2>2. rights[partyID] = 0 /\ \A p \in Parties : ~(inflight[p] > 0)
    BY <1>b, <2>1
  <2>3. CASE /\ inflight' = [inflight EXCEPT ![partyID] = inflight[partyID] + 1]
             /\ at' = [at EXCEPT ![w] = "start"]
             /\ granting' = [granting EXCEPT ![w] = TRUE]
    <3>1. inflight'[partyID] = 1 /\ \A p \in Parties \ {partyID} : inflight'[p] = inflight[p]
      BY <1>0, <1>c, <2>2, <2>3 DEF PollingTypeOK
    <3>2. at'[w] = "start" /\ granting'[w]
      BY <1>0, <2>3 DEF PollingTypeOK
    <3>3. QED BY <1>a, <1>b, <1>c, <2>1, <2>2, <3>1, <3>2 DEF Single
  <2>4. CASE faults' = faults + 1
    BY <1>a, <2>4
  <2>5. CASE Ends(w, "error") /\ UNCHANGED inflight
    <3>1. at'[w] = "idle"
      BY <1>0, <2>5 DEF Ends, GoTo, PollingTypeOK
    <3>2. QED BY <1>a, <1>b, <2>1, <2>2, <2>5, <3>1 DEF Single
  <2>6. QED BY <1>0, <1>5, <2>3, <2>4, <2>5, SubmitCases
<1>6. ASSUME NEW w \in Workers, Poll(w) \/ Wake(w) \/ Deadline(w) PROVE Single'
  <2>1. /\ at[w] \in {"poll", "sleep"} /\ at'[w] \in {"poll", "sleep", "idle"}
        /\ UNCHANGED <<inflight, rights>>
    BY <1>0, <1>6 DEF Poll, Wake, Deadline, Ends, GoTo, ledger, PollingTypeOK
  <2>2. QED BY <1>a, <1>b, <2>1 DEF Single
<1>7. ASSUME NEW p \in Parties, Commit(p) PROVE Single'
  <2>1. /\ UNCHANGED <<at, granting>> /\ inflight[p] > 0
        /\ \A q \in Parties : inflight'[q] > 0 => inflight[q] > 0
        /\ \A q \in Parties : rights'[q] + inflight'[q] = rights[q] + inflight[q]
    BY <1>0, <1>7 DEF Commit, locals, PollingTypeOK
  <2>2. \A w \in Workers : at[w] \notin {"command", "submit"}
    BY <1>b, <2>1
  <2>3. QED BY <1>a, <1>b, <2>1, <2>2 DEF Single
<1>8. ASSUME NEW p \in Parties, SetPartyID(p) PROVE Single'
  BY <1>a, <1>8 DEF SetPartyID
<1>9. CASE ChangePreapproval \/ UNCHANGED pollingVars
  BY <1>a, <1>b, <1>9 DEF ChangePreapproval, pollingVars, locals, Single
<1>10. QED
  BY <1>1, <1>2, <1>3, <1>4, <1>5, <1>6, <1>7, <1>8, <1>9 DEF PollingNext, Step

\* One goroutine that looks up and grants, for any parties: it never has a party granted
\* two rights while the party stays and the participant answers in time.  Two goroutines
\* can, which is what the assumption is for.
THEOREM GrantedOnceHolds ==
    ASSUME \A v, w \in Workers : v = w
    PROVE  PollingSpec => []GrantedOnce
<1>1. PollingInit => FindInv /\ Single
  <2>1. PollingInit => Single
    BY DEF PollingInit, Single
  <2>2. QED BY <2>1, FindInit
<1>2. FindInv /\ Single /\ [PollingNext]_pollingVars => (FindInv /\ Single)'
  BY FindStep, SingleStep
<1>3. FindInv /\ Single => GrantedOnce
  <2>1. SUFFICES ASSUME FindInv, Single, sets + faults = 0
                 PROVE  \A p \in Parties : rights[p] + inflight[p] <= 1
    BY DEF GrantedOnce
  <2>2. sets = 0 /\ faults = 0
    BY <2>1 DEF FindInv, PollingTypeOK
  <2>3. QED BY <2>1, <2>2 DEF Single
<1>4. QED BY <1>1, <1>2, <1>3, PTL DEF PollingSpec
=============================================================================
