---------------------------- MODULE MCGateOrder ----------------------------
(***************************************************************************)
(* The gate and the two things that feed it: the history, which lowers the *)
(* floor it counts from, and intake, which gives it requirement findings.  *)
(* One of the three moves in a behaviour.                                  *)
(***************************************************************************)
EXTENDS GateOrder, DebtHistory, Intake, TLC

CONSTANTS
    orders, menu, row, edit, icon, kEdit, kRow, kIcon,
    two, one, none,
    form, banner

VARIABLE moves   \* chosen once: which of the three does

-----------------------------------------------------------------------------
\* GateOrder: on one screen a control in a table row and a control outside it that
\* share a name, and on another, that declares a signal, a counted control.  Advice
\* about the row's control shows an element of the name they share.
ScreenOfDef == (kEdit :> orders) @@ (kRow :> orders) @@ (kIcon :> menu)
LegacyKeyDef == (row :> kEdit) @@ (edit :> kEdit) @@ (icon :> kIcon)
RowKeyDef == (row :> kRow) @@ (edit :> kEdit) @@ (icon :> kIcon)
MeetsDef == (row :> {kEdit}) @@ (edit :> {kEdit}) @@ (icon :> {kIcon})
Report(s, c, f) == [spot |-> s, class |-> c, confidence |-> f]
PoolDef == {Report(row, "deterministic", "fail"),
            Report(edit, "deterministic", "unverified"),
            Report(icon, "deterministic", "fail"),
            Report(row, "advisory", "fail")}
WaiversDef == {[keys |-> {kEdit, kRow}, expires |-> 1]}

\* Only a key that two controls share is worth a floor that accepts two, or none.
GateStarts ==
    \A k \in Entries(report.floor) : k = kEdit \/ report.floor.count[k] = 1

GateRests ==
    /\ report.floor.version = 3 /\ report.floor.count = <<>>
    /\ report.waivers = {} /\ report.walk = {}

-----------------------------------------------------------------------------
\* DebtHistory: an application that has two barriers, one, or none.
CodesDef == {two, one, none}
BarriersDef == [c \in CodesDef |-> CASE c = two -> 2 [] c = one -> 1 [] OTHER -> 0]
TreesDef == CodesDef \X (0..2)

HistoryRests == ~world.dynamic /\ ~world.redelivered

-----------------------------------------------------------------------------
\* Intake: a configured screen, a routed one, a docs page, and misspelt names.
Plain(text) == [text |-> text, form |-> "plain"]
Hidden(text) == [text |-> text, form |-> "hidden"]
TextsDef == {"home", "list", "guide", "hmoe", "r1", "r2", "r3", "r4", "r5"}
IdsDef == {Plain(t) : t \in TextsDef} \cup {Hidden(t) : t \in TextsDef}
RoutesDef == {Plain("list")}
DocsPagesDef == {Plain("guide")}
LabelsDef == {Plain("home"), Plain("guide"), Plain("hmoe"), Hidden("home")}

\* Two assertions: a form's announcement and a banner's name.
AppsDef ==
    {(form :> f) @@ (banner :> "met") : f \in {"met", "unmet", "unsure", "thrown"}}
        \cup {(form :> "met") @@ (banner :> "unmet")}

Req(id, surface, asserts, asks) ==
    [id |-> id, surface |-> surface, kind |-> asserts, asserts |-> asserts, asks |-> asks]
OnHome == Req(Plain("r1"), Plain("home"), "flow", form)
OnHomeToo == Req(Plain("r2"), Plain("home"), "content", banner)
SameId == Req(Plain("r1"), Plain("home"), "content", banner)
LooksTheSame == Req(Hidden("r1"), Plain("home"), "content", banner)
OnDocs == Req(Plain("r3"), Plain("guide"), "content", banner)
Misspelt == Req(Plain("r4"), Plain("hmoe"), "content", banner)
ForDocs == Req(Plain("r5"), Plain("hmoe"), "doc", banner)

Yaml(entries) == [shaped |-> TRUE, entries |-> entries]
Cfg(root, surfaces) == [root |-> root, surfaces |-> surfaces]
Home == Cfg("dir", <<Plain("home")>>)
Repo(config, files, excused) ==
    [config |-> config, files |-> files, excused |-> excused]
Excusing(id) == [id |-> id, surface |-> Plain("home")]

ReposDef ==
    {Repo(Home, <<Yaml(<<OnHome, OnHomeToo>>)>>, {}),
     Repo(Home, <<Yaml(<<OnHome, OnDocs>>)>>, {Excusing(Plain("r1"))}),
     Repo(Home, <<Yaml(<<OnHome>>), Yaml(<<SameId>>)>>, {Excusing(Plain("r1"))}),
     Repo(Home, <<Yaml(<<OnHome, LooksTheSame>>)>>, {}),
     Repo(Home, <<Yaml(<<OnHome>>), Yaml(<<Misspelt>>)>>, {}),
     Repo(Home, <<[shaped |-> FALSE, entries |-> <<OnHome>>]>>, {}),
     Repo(Home, <<Yaml(<<OnHome, ForDocs>>)>>,
          {[id |-> Plain("r1"), surface |-> Hidden("home")]}),
     Repo(Cfg("none", <<Plain("home")>>), <<Yaml(<<OnHome>>)>>, {}),
     Repo(Cfg("unanchored", <<Plain("home")>>), <<Yaml(<<OnHome>>)>>, {}),
     Repo(Cfg("dir", <<Plain("home"), Plain("home")>>), <<Yaml(<<OnHome>>)>>, {}),
     Repo(NoConfig, <<Yaml(<<OnHome>>)>>, {}),
     Repo(Garbled, <<>>, {})}

IntakeRests == tree = Repo(NoConfig, <<Yaml(<<OnHome>>)>>, {}) /\ trusted = tree
               /\ app = (form :> "met") @@ (banner :> "met")

-----------------------------------------------------------------------------
MCInit ==
    /\ Init /\ GateStarts /\ HistoryInit /\ IntakeInit
    /\ moves \in {"gate", "history", "intake"}
    /\ moves # "gate" => GateRests
    /\ moves # "history" => HistoryRests
    /\ moves # "intake" => IntakeRests

MCNext ==
    /\ \/ moves = "gate" /\ Next /\ UNCHANGED <<historyVars, intakeVars>>
       \/ moves = "history" /\ HistoryNext /\ UNCHANGED <<report, intakeVars>>
       \/ moves = "intake" /\ IntakeNext /\ UNCHANGED <<report, historyVars>>
    /\ UNCHANGED moves

MCSpec == MCInit /\ [][MCNext]_<<report, historyVars, intakeVars, moves>>
=============================================================================
