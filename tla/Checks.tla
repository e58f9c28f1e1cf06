------------------------------- MODULE Checks -------------------------------
(***************************************************************************)
(* The sequential checks together with the cluster they examine.  One of   *)
(* them is run, and may be run again: under another name of the same list, *)
(* or by the next invocation of the check command.                         *)
(***************************************************************************)
EXTENDS TopologyChecks

CheckNames == ContentCheckNames \cup AccountingCheckNames \cup TopologyCheckNames

Script(c) ==
    CASE c \in ContentCheckNames -> ContentScript(c)
      [] c \in AccountingCheckNames -> AccountingScript(c)
      [] c \in TopologyCheckNames -> TopologyScript(c)

\* The options fit the cluster: names are indexed without a look at how many
\* there are.
OptionsFit(c) ==
    /\ c \in {"chunks", "retrieval"} => UploadNodeCount <= Cardinality(Full)
    /\ c = "act" => Light # {} /\ Cardinality(Full) >= 3

vars == <<script, batches, content, accounts, topology>>

Init ==
    /\ check \in CheckNames /\ OptionsFit(check)
    /\ ScriptInit /\ ClientInit /\ ContentInit /\ AccountingInit /\ TopologyInit
    /\ todo = Script(check)

BatchStep == Read \/ List \/ Buy \/ Usable \/ StampIs \/ TopUp \/ Dilute \/ Increased

BatchSettles == (\E n \in Nodes : Mature(n)) \/ Mined

\* the check's next request, with its answer
Request ==
    \/ BatchStep /\ UNCHANGED <<content, accounts, topology>>
    \/ ContentStep /\ UNCHANGED <<accounts, topology>>
    \/ AccountingStep /\ UNCHANGED topology
    \/ TopologyStep

\* the cluster gets on with what it was asked for
Settle ==
    \/ BatchSettles /\ UNCHANGED <<content, accounts, topology>>
    \/ ContentSettles /\ UNCHANGED <<accounts, topology>>
    \/ AccountingSettles /\ UNCHANGED topology
    \/ \E n \in Nodes : Issue(n)

\* what happens meanwhile
Disturb ==
    \/ (\E n \in Nodes : UsedUp(n)) /\ UNCHANGED <<content, accounts, topology>>
    \/ Exchange /\ UNCHANGED topology
    \/ Flip
    \/ \E n \in Nodes : Expire(n)

Again ==
    /\ Rerun(Script(check)) /\ ContentAgain /\ AccountingAgain
    /\ UNCHANGED <<batches, topology>>

Done == verdict # "none" /\ UNCHANGED vars

Next == Request \/ Settle \/ Disturb \/ Again \/ Done

Spec == Init /\ [][Next]_vars

-----------------------------------------------------------------------------
(* Properties *)

\* The checks that read their content back through the network.
ThroughTheNetwork ==
    {"pushsync", "chunks", "light", "retrieval", "fileretrieval", "full",
     "redundancy", "feed", "feed2", "manifest", "manifest2", "act"}

\* The node whose word is enough even when it took the upload itself: pushsync
\* asks the closest node it knows of and fileretrieval the last one, without
\* asking whether that is the uploader.
Trusted ==
    CASE check \in {"pushsync", "chunks", "light"} -> near
      [] check = "fileretrieval" -> [x \in Items |-> Last(NodeNames)]
      [] OTHER -> home

\* A check of content that returns nil has seen the network hold it: every item
\* whose upload was answered is at the full node closest to it, or at the one
\* node the check asks without regard to who the uploader is, however late
\* the cluster synced, whatever was asked again and whatever response was lost
\* in between.
PassMeansStored ==
    verdict = "pass" /\ check \in ThroughTheNetwork
        => \A x \in posted : x \in stored[home[x]] \cup stored[Trusted[x]]

\* A check of money that returns nil has seen its transactions through: every
\* cashout of this run has paid (one of an earlier run whose answer was lost is
\* not looked at), no withdrawal is outstanding (unless one of an earlier run
\* was taken for it: only the sum is compared), and the stake is withdrawn
\* unless this run found the contract paused, sent nothing and skipped.
PassMeansPaid ==
    verdict = "pass" =>
        /\ check = "cashout" => \A n \in actions : cheques[n] = "paid"
        /\ check = "withdraw" => runs > 1 \/ \A t \in {"native", "bzz"} : wallet[t].due = 0
        /\ check = "stake" => chain.stake = 0 \/ (chain.paused /\ chain.session = chain.nonce)

\* GetOrCreateMutableBatch pays for a second batch only when it cannot know of
\* a good one: the response was lost, the polls ran out, or it is used up.
PaysForCause ==
    check \notin {"gc", "postage", "simpushsync"} => \A n \in Nodes : bought[n] <= 1 + excuse[n]

\* When autotls returns nil, the underlays it accepted name their own peer, in
\* the right domain, with the address they lead to; unless a request broke and
\* was left out, that is the node's own, and the certificate it took for renewed
\* was issued during the check, whichever of the two rounds of reads saw it.
AutoTlsIsReal ==
    verdict = "pass" /\ check = "autotls" =>
        /\ \A n \in Range(Wss) :
              addr[n].at.host = Name(ExtractForgeInfo(addr[n]).ip, n, "forge")
        /\ errors = 0 => /\ \A n \in Range(Wss) : AtHome(n)
                         /\ \E n \in Range(Wss) : cert[n].serial > 1

\* everything the check relies on is in place
Settled ==
    /\ ContentSettled /\ AccountingSettled /\ TopologySettled
    /\ \A n \in Nodes : pend[n] = 0
    /\ stamp.dueAmount = 0 /\ stamp.dueDepth = 0

\* A check returns an error only when a request broke, when the cluster was
\* not (yet) in the state it had been asked to be in, or when an earlier run
\* left something behind (gc wants a fresh cluster, stake an empty one).
BlameIsReal ==
    [][verdict = "none" /\ verdict' = "fail"
        => errors' > 0 \/ ~Settled \/ (runs > 1 /\ check \in {"gc", "stake"})]_vars

============================================================================
