-------------------------------- MODULE Alerts --------------------------------
(* What an alert meets: the day's book, the gates of its banner and what it   *)
(* may say of who was in front, the menu bar's face and the table its rule    *)
(* came from. None touches another's state: a behaviour runs one of them,     *)
(* `part`, and leaves the rest off.                                           *)
EXTENDS AlertBook

CONSTANTS
    None,
    Sources, Window, NoisyAfter, SnoozeChoices, HalfHours,     \* of Banners
    Tables, Broken, Unusable, Jobs, Readers, MaxEvents,         \* of Template
    Hungry, Volumes, Doubtful, Recover, Ticks,                  \* of Attention
    Apps, UnusedAfter, MaxTracked, Hours                        \* of Active

\* What stands for nothing, and for a file that is no table, is none of the things.
ASSUME PartsAssumption ==
    /\ None \notin Nat \cup Apps \cup Tables
    /\ Broken \notin Tables \cup {None} /\ Unusable \notin Tables
    /\ Hungry \cap Volumes = {} /\ "pressure" \notin Hungry \cup Volumes
    /\ Window \in Nat \ {0} /\ NoisyAfter \in Nat /\ SnoozeChoices \subseteq Nat
    /\ Jobs \cap {"probe", "ignore"} = {} /\ MaxEvents \in Nat
    /\ HalfHours \in Nat /\ Ticks \in Nat /\ Recover \in Nat

VARIABLES
    part,
    now, muted, snoozed, sent, verdict, delivered,
    published, builtin, file, check, cache, engine, asked, dot, sync, jobs,
    probe, readers, ignoring, events, waved, crossed, straddled,
    wall, cards, clock, sample, ejected, pref, face, under,
    hour, front, born, came, touched, lastActive, claim

banners == <<now, muted, snoozed, sent, verdict, delivered>>
table == <<published, builtin, file, check, cache, engine, asked, dot, sync, jobs,
           probe, readers, ignoring, events, waved, crossed, straddled>>
dressed == <<wall, cards, clock, sample, ejected, pref, face, under>>
active == <<hour, front, born, came, touched, lastActive, claim>>
allVars == <<part, vars, banners, table, dressed, active>>

Banners == INSTANCE Banners WITH Episodes <- Sources, Horizon <- HalfHours
Template == INSTANCE Template
Attention == INSTANCE Attention WITH Horizon <- Ticks
Active == INSTANCE Active WITH Horizon <- Hours

BannersOff ==
    /\ now = None /\ muted = None /\ snoozed = None /\ sent = None
    /\ verdict = None /\ delivered = None
TemplateOff ==
    /\ published = None /\ builtin = None /\ file = None /\ check = None
    /\ cache = None /\ engine = None /\ asked = None /\ dot = None /\ sync = None
    /\ jobs = None /\ probe = None /\ readers = None /\ ignoring = None
    /\ events = None /\ waved = None /\ crossed = None /\ straddled = None
AttentionOff ==
    /\ wall = None /\ cards = None /\ clock = None /\ sample = None
    /\ ejected = None /\ pref = None /\ face = None /\ under = None
ActiveOff ==
    /\ hour = None /\ front = None /\ born = None /\ came = None /\ touched = None
    /\ lastActive = None /\ claim = None

PartsInit ==
    /\ Init
    /\ \/ part = "book" /\ BannersOff /\ TemplateOff /\ AttentionOff /\ ActiveOff
       \/ part = "banners" /\ Banners!Init /\ TemplateOff /\ AttentionOff /\ ActiveOff
       \/ part = "template" /\ BannersOff /\ Template!Init /\ AttentionOff /\ ActiveOff
       \/ part = "attention" /\ BannersOff /\ TemplateOff /\ Attention!Init /\ ActiveOff
       \/ part = "active" /\ BannersOff /\ TemplateOff /\ AttentionOff /\ Active!Init

PartsNext ==
    /\ UNCHANGED part
    /\ \/ part = "book" /\ Next /\ UNCHANGED <<banners, table, dressed, active>>
       \/ part = "banners" /\ Banners!Next /\ UNCHANGED <<vars, table, dressed, active>>
       \/ part = "template" /\ Template!Next /\ UNCHANGED <<vars, banners, dressed, active>>
       \/ part = "attention" /\ Attention!Next /\ UNCHANGED <<vars, banners, table, active>>
       \/ part = "active" /\ Active!Next /\ UNCHANGED <<vars, banners, table, dressed>>

PartsSpec == PartsInit /\ [][PartsNext]_allVars

----------------------------------------------------------------------------
\* What a report's card says of its banners is what the gates do (Banners).
GatesAreTold == [][part = "banners" => Banners!GatesAreTold]_allVars

\* The dot, the card and the collector follow the table's files (Template).
TableIsTold == part = "template" => Template!TableIsTold

\* A banner calls unused only what nobody switched to (Active).
ClaimIsProven == part = "active" => Active!ClaimIsProven

\* The menu bar wears what the samples say (Attention).
FaceIsNow == [][part = "attention" => Attention!FaceIsNow]_allVars
=============================================================================
