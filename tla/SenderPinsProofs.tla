---------------------------- MODULE SenderPinsProofs ----------------------------
(***************************************************************************)
(* The pins of any number of clients, resolvers, tabs, crashes and signer     *)
(* faults: a pinned tab is known as a coordinator's; no tab is pinned for two *)
(* clients, as long as no client has the bare base title; and a client that   *)
(* nothing has shaken keeps its tab, through restarts too.                    *)
(***************************************************************************)
EXTENDS SenderPins, StoreSignerProofs

(* What a resolver holds while it persists its pin. *)
ConnInv ==
  \A p \in Resolvers :
    /\ pc[p] = "read" => conn[p] \in Stored
    /\ pc[p] = "sign" => conn[p] \in [kind : {"request"}, payload : Payloads]
    /\ pc[p] = "write" => conn[p] \in [kind : {"signed"}, env : Envelope]
    /\ pc[p] \in {"show", "showTitle", "showSuffix", "read", "sign", "write"} =>
         target[p] \in Handles

(* The parts of TypeOK. *)
PinType ==
  /\ pin \in PinTable /\ home \in PinTable
  /\ fresh \subseteq Clients /\ written \subseteq Clients /\ coordinators \subseteq Handles

ProcType ==
  /\ pc \in [Resolvers -> Steps]
  /\ target \in [Resolvers -> Handles \cup {NoTab}]
  /\ conn \in [Resolvers -> {None} \cup Stored \cup [kind : {"request"}, payload : Payloads]]
  /\ left \subseteq Locked

TabType ==
  /\ maker \in [Handles -> Clients \cup {NoClient}]
  /\ live \subseteq Handles /\ titled \subseteq Handles /\ closes \in 0..MaxCloses

RestType ==
  /\ up \in BOOLEAN /\ pinFile \in Stored /\ crashes \in 0..MaxCrashes
  /\ shaken \subseteq Clients /\ mishaps \subseteq {"overlap", "lapse"}

LEMMA TypeParts == TypeOK <=> SignerTypeOK /\ PinType /\ ProcType /\ TabType /\ RestType
BY DEF TypeOK, PinType, ProcType, TabType, RestType

LEMMA PinsFacts ==
  /\ NoTab \notin Handles /\ NoClient \notin Clients /\ Store \in Stores
  /\ Payloads = PinTable /\ clientOf \in [Resolvers -> Clients] /\ Locked \subseteq Resolvers
  /\ NoPins \in PinTable /\ None \notin Stored
BY PinsAssumption DEF Store, NoPins, PinTable, None, Stored, Missing, Malformed

-----------------------------------------------------------------------------
(* The helpers the actions are built from. *)

LEMMA GotoType ==
  ASSUME ProcType, NEW p \in Resolvers, NEW label \in Steps, NEW h \in Handles \cup {NoTab},
         Goto(p, label, h)
  PROVE  /\ pc' \in [Resolvers -> Steps] /\ target' \in [Resolvers -> Handles \cup {NoTab}]
         /\ pc'[p] = label /\ target'[p] = h
         /\ \A q \in Resolvers : q # p => pc'[q] = pc[q] /\ target'[q] = target[q]
BY DEF Goto, ProcType

LEMMA StopType ==
  ASSUME ProcType, ConnInv, NEW p \in Resolvers, Stop(p)
  PROVE  /\ ProcType' /\ ConnInv'
         /\ target'[p] = NoTab /\ conn'[p] = None
         /\ \A q \in Resolvers : q # p => target'[q] = target[q] /\ conn'[q] = conn[q]
<1>1. "idle" \in Steps
  BY DEF Steps
<1>2. /\ pc' \in [Resolvers -> Steps] /\ target' \in [Resolvers -> Handles \cup {NoTab}]
      /\ pc'[p] = "idle" /\ target'[p] = NoTab
      /\ \A q \in Resolvers : q # p => pc'[q] = pc[q] /\ target'[q] = target[q]
  BY <1>1, GotoType DEF Stop
<1>3. /\ conn' \in [Resolvers -> {None} \cup Stored \cup [kind : {"request"}, payload : Payloads]]
      /\ conn'[p] = None /\ \A q \in Resolvers : q # p => conn'[q] = conn[q]
  BY DEF Stop, ProcType
<1>4. left' \subseteq Locked
  BY DEF Stop, ProcType
<1>5. ConnInv'
  BY <1>2, <1>3 DEF ConnInv
<1> QED BY <1>2, <1>3, <1>4, <1>5 DEF ProcType

(* A resolver moves on and keeps what it holds. *)
LEMMA MoveKeeps ==
  ASSUME ProcType, ConnInv, NEW p \in Resolvers,
         NEW label \in Steps \ {"read", "sign", "write"}, NEW h \in Handles \cup {NoTab},
         label \in {"show", "showTitle", "showSuffix"} => h \in Handles,
         Goto(p, label, h), conn' = conn, left' = left
  PROVE  /\ ProcType' /\ ConnInv' /\ target'[p] = h
         /\ \A q \in Resolvers : q # p => target'[q] = target[q]
<1>1. /\ pc' \in [Resolvers -> Steps] /\ target' \in [Resolvers -> Handles \cup {NoTab}]
      /\ pc'[p] = label /\ target'[p] = h
      /\ \A q \in Resolvers : q # p => pc'[q] = pc[q] /\ target'[q] = target[q]
  BY GotoType
<1>2. ProcType'
  BY <1>1 DEF ProcType
<1>3. ConnInv'
  BY <1>1 DEF ConnInv
<1> QED BY <1>1, <1>2, <1>3

(* It goes on to the next step of a persist. *)
LEMMA PersistKeeps ==
  ASSUME ProcType, ConnInv, NEW p \in Resolvers, NEW h \in Handles,
         NEW label \in {"read", "sign", "write"}, NEW held,
         label = "read" => held \in Stored,
         label = "sign" => held \in [kind : {"request"}, payload : Payloads],
         label = "write" => held \in [kind : {"signed"}, env : Envelope],
         Goto(p, label, h), conn' = [conn EXCEPT ![p] = held], left' = left
  PROVE  /\ ProcType' /\ ConnInv' /\ target'[p] = h /\ conn'[p] = held
         /\ \A q \in Resolvers : q # p => target'[q] = target[q] /\ conn'[q] = conn[q]
<1>1. label \in Steps /\ h \in Handles \cup {NoTab}
  BY DEF Steps
<1>2. /\ pc' \in [Resolvers -> Steps] /\ target' \in [Resolvers -> Handles \cup {NoTab}]
      /\ pc'[p] = label /\ target'[p] = h
      /\ \A q \in Resolvers : q # p => pc'[q] = pc[q] /\ target'[q] = target[q]
  BY <1>1, GotoType
<1>3. held \in {None} \cup Stored \cup [kind : {"request"}, payload : Payloads]
  BY DEF Stored
<1>4. /\ conn' \in [Resolvers -> {None} \cup Stored \cup [kind : {"request"}, payload : Payloads]]
      /\ conn'[p] = held /\ \A q \in Resolvers : q # p => conn'[q] = conn[q]
  BY <1>3 DEF ProcType
<1>5. ProcType'
  BY <1>2, <1>4 DEF ProcType
<1>6. ConnInv'
  BY <1>2, <1>4 DEF ConnInv
<1> QED BY <1>2, <1>4, <1>5, <1>6

LEMMA PinTypeStep ==
  ASSUME PinType, ProcType, ConnInv, NEW p \in Resolvers, NEW h \in Handles, Pin(p, h),
         pinFile \in Stored, mishaps \subseteq {"overlap", "lapse"}, left' = left
  PROVE  /\ PinType' /\ ProcType' /\ ConnInv' /\ mishaps' \subseteq {"overlap", "lapse"}
         /\ pin' = [pin EXCEPT ![clientOf[p]] = h] /\ coordinators' = coordinators \cup {h}
         /\ target'[p] = h /\ conn'[p] = pinFile
         /\ \A q \in Resolvers : q # p => target'[q] = target[q] /\ conn'[q] = conn[q]
<1>1. clientOf[p] \in Clients
  BY PinsFacts
<1>2. PinType'
  BY <1>1 DEF Pin, PinType, PinTable
<1>3. mishaps' \subseteq {"overlap", "lapse"}
  BY DEF Pin
<1>4. Goto(p, "read", h) /\ conn' = [conn EXCEPT ![p] = pinFile]
  BY DEF Pin
<1>5. /\ ProcType' /\ ConnInv' /\ target'[p] = h /\ conn'[p] = pinFile
      /\ \A q \in Resolvers : q # p => target'[q] = target[q] /\ conn'[q] = conn[q]
  BY <1>4, PersistKeeps
<1> QED BY <1>2, <1>3, <1>5 DEF Pin

LEMMA NewTabType ==
  ASSUME TabType, NEW c \in Clients, NEW h \in Handles, NewTab(c, h)
  PROVE  /\ TabType' /\ maker'[h] = c /\ maker[h] = NoClient
         /\ \A g \in Handles : g # h => maker'[g] = maker[g]
BY DEF NewTab, TabType

-----------------------------------------------------------------------------
(* A table of pins that gives each client tabs made for it; the bare base title is
   part of every title, so it is about clients with a title of their own. *)
OwnTabs(t, made) == \A c \in Clients : t[c] # NoTab => made[t[c]] = c

Holds(x, made) ==
  /\ x.kind = "request" => OwnTabs(x.payload, made)
  /\ x.kind = "signed" => OwnTabs(x.env.payload, made)

MakerInv ==
  BaseClients = {} =>
    /\ OwnTabs(pin, maker) /\ Holds(pinFile, maker)
    /\ \A p \in Resolvers :
         /\ target[p] # NoTab => maker[target[p]] = clientOf[p]
         /\ Holds(conn[p], maker)

PinsInv == TypeOK /\ ConnInv /\ PinsAreProtected /\ MakerInv

(* Tabs once made stay their client's. *)
MakersStay == \A g \in Handles : maker[g] # NoClient => maker'[g] = maker[g]

LEMMA OwnTabsStays ==
  ASSUME NEW t \in PinTable, OwnTabs(t, maker), MakersStay
  PROVE  OwnTabs(t, maker')
BY PinsFacts DEF OwnTabs, PinTable, MakersStay

LEMMA HoldsStays ==
  ASSUME NEW x \in {None} \cup Stored \cup [kind : {"request"}, payload : Payloads],
         Holds(x, maker), MakersStay
  PROVE  Holds(x, maker')
<1>1. x.kind = "request" => x.payload \in PinTable
  BY PinsFacts DEF None, Stored, Missing, Malformed
<1>2. x.kind = "signed" => x.env.payload \in PinTable
  BY PinsFacts DEF None, Stored, Missing, Malformed, Envelope
<1> QED BY <1>1, <1>2, OwnTabsStays DEF Holds

LEMMA MakerKeeps ==
  ASSUME TypeOK, MakerInv, BaseClients = {}, MakersStay, OwnTabs(pin', maker'),
         \A p \in Resolvers : \/ target'[p] \in {NoTab, target[p]}
                              \/ maker'[target'[p]] = clientOf[p],
         \A p \in Resolvers : \/ conn'[p] \in {conn[p], pinFile, None}
                              \/ Holds(conn'[p], maker'),
         pinFile' \in {pinFile, Malformed} \cup {conn[p] : p \in Resolvers}
  PROVE  MakerInv'
<1>1. ProcType /\ RestType
  BY TypeParts
<1>2. \A p \in Resolvers : Holds(conn[p], maker')
  <2> TAKE p \in Resolvers
  <2>1. conn[p] \in {None} \cup Stored \cup [kind : {"request"}, payload : Payloads]
    BY <1>1 DEF ProcType
  <2>2. Holds(conn[p], maker)
    BY DEF MakerInv
  <2> QED BY <2>1, <2>2, HoldsStays
<1>3. Holds(pinFile, maker')
  <2>1. pinFile \in Stored /\ Holds(pinFile, maker)
    BY <1>1 DEF RestType, MakerInv
  <2> QED BY <2>1, HoldsStays
<1>4. Holds(None, maker') /\ Holds(Malformed, maker')
  BY DEF Holds, None, Malformed
<1>5. \A p \in Resolvers : target'[p] # NoTab => maker'[target'[p]] = clientOf[p]
  <2> SUFFICES ASSUME NEW p \in Resolvers, target'[p] # NoTab, target'[p] = target[p]
               PROVE  maker'[target'[p]] = clientOf[p]
    OBVIOUS
  <2>1. target[p] \in Handles /\ maker[target[p]] = clientOf[p] /\ clientOf[p] # NoClient
    BY <1>1, PinsFacts DEF ProcType, MakerInv
  <2> QED BY <2>1 DEF MakersStay
<1>6. \A p \in Resolvers : Holds(conn'[p], maker')
  BY <1>2, <1>3, <1>4
<1>7. Holds(pinFile', maker')
  BY <1>2, <1>3, <1>4
<1> QED BY <1>5, <1>6, <1>7 DEF MakerInv

-----------------------------------------------------------------------------
(* The steps of a resolver that look for a tab. *)

LEMMA MoveStep ==
  ASSUME PinsInv, NEW p \in Resolvers,
         NEW label \in Steps \ {"read", "sign", "write"}, NEW h \in Handles \cup {NoTab},
         label \in {"show", "showTitle", "showSuffix"} => h \in Handles,
         Goto(p, label, h), conn' = conn, left' = left,
         UNCHANGED signerVars, UNCHANGED tabVars, PinType', RestType', PinsAreProtected',
         pinFile' = pinFile, BaseClients = {} => OwnTabs(pin', maker),
         BaseClients = {} /\ h # NoTab => maker[h] = clientOf[p]
  PROVE  PinsInv'
<1>1. SignerTypeOK /\ PinType /\ ProcType /\ TabType /\ RestType /\ ConnInv
  BY TypeParts DEF PinsInv
<1>2. /\ ProcType' /\ ConnInv' /\ target'[p] = h
      /\ \A q \in Resolvers : q # p => target'[q] = target[q]
  BY <1>1, MoveKeeps
<1>3. SignerTypeOK' /\ TabType' /\ maker' = maker
  BY <1>1 DEF SignerTypeOK, signerVars, TabType, tabVars
<1>4. TypeOK'
  BY <1>1, <1>2, <1>3 DEF TypeOK, PinType, ProcType, TabType, RestType
<1>5. MakerInv'
  <2> SUFFICES ASSUME BaseClients = {} PROVE MakerInv'
    BY DEF MakerInv
  <2>1. MakersStay
    BY <1>3 DEF MakersStay
  <2>2. \A q \in Resolvers : target'[q] \in {NoTab, target[q]} \/ maker'[target'[q]] = clientOf[q]
    BY <1>2, <1>3
  <2>3. OwnTabs(pin', maker')
    BY <1>3
  <2> QED BY <2>1, <2>2, <2>3, MakerKeeps DEF PinsInv
<1> QED BY <1>2, <1>4, <1>5 DEF PinsInv

LEMMA StartStep == ASSUME PinsInv, NEW p \in Resolvers, Start(p) PROVE PinsInv'
<1>1. SignerTypeOK /\ PinType /\ ProcType /\ TabType /\ RestType /\ ConnInv
  BY TypeParts DEF PinsInv
<1> DEFINE c == clientOf[p]
           h == IF pin[c] = NoTab THEN NoTab ELSE pin[c]
           label == IF pin[c] = NoTab THEN "list" ELSE "show"
<1>2. c \in Clients /\ pin[c] \in Handles \cup {NoTab}
  BY <1>1, PinsFacts DEF PinType, PinTable
<1>3. Goto(p, label, h)
  BY DEF Start
<1>4. /\ conn' = conn /\ left' = left /\ UNCHANGED signerVars /\ UNCHANGED tabVars
      /\ pin' = pin /\ home' = home /\ fresh' = fresh /\ written' = written
      /\ coordinators' = coordinators /\ pinFile' = pinFile /\ up' = up /\ crashes' = crashes
      /\ mishaps' = mishaps
  BY DEF Start
<1>5. shaken' \subseteq Clients
  BY <1>1, <1>2 DEF Start, RestType
<1>6. PinType' /\ RestType' /\ PinsAreProtected'
  BY <1>1, <1>4, <1>5 DEF PinType, RestType, PinsAreProtected, PinsInv
<1>7. BaseClients = {} => OwnTabs(pin', maker) /\ (h # NoTab => maker[h] = c)
  BY <1>2, <1>4 DEF PinsInv, MakerInv, OwnTabs
<1>8. /\ label \in Steps \ {"read", "sign", "write"} /\ h \in Handles \cup {NoTab}
      /\ (label \in {"show", "showTitle", "showSuffix"} => h \in Handles)
  BY <1>2 DEF Steps
<1> HIDE DEF h, label
<1> QED BY <1>3, <1>4, <1>6, <1>7, <1>8, MoveStep

LEMMA ShowMissStep == ASSUME PinsInv, NEW p \in Resolvers, ShowMiss(p) PROVE PinsInv'
<1>1. SignerTypeOK /\ PinType /\ ProcType /\ TabType /\ RestType /\ ConnInv
  BY TypeParts DEF PinsInv
<1>2. /\ conn' = conn /\ left' = left /\ UNCHANGED signerVars /\ UNCHANGED tabVars
      /\ home' = home /\ written' = written
      /\ coordinators' = coordinators /\ pinFile' = pinFile /\ up' = up /\ crashes' = crashes
      /\ mishaps' = mishaps
  BY DEF ShowMiss
<1>3. clientOf[p] \in Clients /\ shaken' \subseteq Clients
  BY <1>1, PinsFacts DEF ShowMiss, RestType
<1>4. RestType'
  BY <1>1, <1>2, <1>3 DEF RestType
<1>5. /\ pin' \in {pin, [pin EXCEPT ![clientOf[p]] = NoTab]}
      /\ fresh' \in {fresh, fresh \ {clientOf[p]}}
  BY DEF ShowMiss
<1>6. PinType' /\ PinsAreProtected'
  BY <1>1, <1>2, <1>3, <1>5 DEF PinType, PinTable, PinsAreProtected, PinsInv
<1>7. BaseClients = {} => OwnTabs(pin', maker)
  BY <1>1, <1>3, <1>5 DEF PinsInv, MakerInv, OwnTabs, PinType, PinTable
<1>8. CASE pc[p] = "showTitle" /\ Goto(p, "showSuffix", target[p])
  <2>1. target[p] \in Handles /\ target[p] # NoTab
    BY <1>1, <1>8, PinsFacts DEF ConnInv
  <2>2. BaseClients = {} => maker[target[p]] = clientOf[p]
    BY <2>1 DEF PinsInv, MakerInv
  <2> QED BY <1>2, <1>4, <1>6, <1>7, <1>8, <2>1, <2>2, MoveStep DEF Steps
<1>9. CASE Goto(p, "list", NoTab)
  BY <1>2, <1>4, <1>6, <1>7, <1>9, MoveStep DEF Steps
<1>10. CASE Goto(p, "create", NoTab)
  BY <1>2, <1>4, <1>6, <1>7, <1>10, MoveStep DEF Steps
<1> QED BY <1>8, <1>9, <1>10 DEF ShowMiss

LEMMA ListStep ==
  ASSUME PinsInv, NEW p \in Resolvers, ListHit(p) \/ ListMiss(p) PROVE PinsInv'
<1>1. SignerTypeOK /\ PinType /\ ProcType /\ TabType /\ RestType /\ ConnInv
  BY TypeParts DEF PinsInv
<1>2. /\ conn' = conn /\ left' = left /\ UNCHANGED signerVars /\ UNCHANGED tabVars
      /\ pin' = pin /\ home' = home /\ fresh' = fresh /\ written' = written
      /\ coordinators' = coordinators /\ pinFile' = pinFile /\ up' = up /\ crashes' = crashes
      /\ mishaps' = mishaps /\ shaken' = shaken
  BY DEF ListHit, ListMiss, hurtVars
<1>3. PinType' /\ RestType' /\ PinsAreProtected'
  BY <1>1, <1>2 DEF PinType, RestType, PinsAreProtected, PinsInv
<1>4. BaseClients = {} => OwnTabs(pin', maker)
  BY <1>2 DEF PinsInv, MakerInv
<1>5. CASE ListHit(p)
  <2>1. PICK h \in Handles : TitleMatches(clientOf[p], h) /\ Goto(p, "showTitle", h)
    BY <1>5 DEF ListHit
  <2>2. BaseClients = {} => maker[h] = clientOf[p]
    BY <2>1 DEF TitleMatches
  <2> QED BY <1>2, <1>3, <1>4, <2>1, <2>2, MoveStep DEF Steps
<1>6. CASE ListMiss(p)
  <2>1. Goto(p, "create", NoTab)
    BY <1>6 DEF ListMiss
  <2> QED BY <1>2, <1>3, <1>4, <2>1, MoveStep DEF Steps
<1> QED BY <1>5, <1>6

-----------------------------------------------------------------------------
(* The steps that pin a tab, and those that end a resolver. *)

LEMMA PinStep ==
  ASSUME PinsInv, NEW p \in Resolvers, NEW h \in Handles, Pin(p, h), MakersStay, TabType',
         BaseClients = {} => maker'[h] = clientOf[p],
         UNCHANGED signerVars, up' = up, left' = left, pinFile' = pinFile,
         crashes' = crashes, shaken' = shaken
  PROVE  PinsInv'
<1>1. SignerTypeOK /\ PinType /\ ProcType /\ TabType /\ RestType /\ ConnInv
  BY TypeParts DEF PinsInv
<1>2. /\ PinType' /\ ProcType' /\ ConnInv' /\ mishaps' \subseteq {"overlap", "lapse"}
      /\ pin' = [pin EXCEPT ![clientOf[p]] = h] /\ coordinators' = coordinators \cup {h}
      /\ target'[p] = h /\ conn'[p] = pinFile
      /\ \A q \in Resolvers : q # p => target'[q] = target[q] /\ conn'[q] = conn[q]
  BY <1>1, PinTypeStep DEF RestType
<1>3. SignerTypeOK' /\ RestType'
  BY <1>1, <1>2 DEF SignerTypeOK, signerVars, RestType
<1>4. TypeOK'
  BY <1>2, <1>3 DEF TypeOK, PinType, ProcType, TabType, RestType
<1>5. clientOf[p] \in Clients /\ pin \in PinTable
  BY <1>1, PinsFacts DEF PinType
<1>6. PinsAreProtected'
  BY <1>2, <1>5 DEF PinsAreProtected, PinsInv, PinTable
<1>7. MakerInv'
  <2> SUFFICES ASSUME BaseClients = {} PROVE MakerInv'
    BY DEF MakerInv
  <2>1. OwnTabs(pin, maker')
    BY <1>5, OwnTabsStays DEF PinsInv, MakerInv
  <2>2. OwnTabs(pin', maker')
    BY <1>2, <1>5, <2>1 DEF OwnTabs, PinTable
  <2>3. \A q \in Resolvers : target'[q] \in {NoTab, target[q]} \/ maker'[target'[q]] = clientOf[q]
    BY <1>2
  <2>4. \A q \in Resolvers : conn'[q] \in {conn[q], pinFile, None}
    BY <1>2
  <2> QED BY <2>2, <2>3, <2>4, MakerKeeps DEF PinsInv
<1> QED BY <1>2, <1>4, <1>6, <1>7 DEF PinsInv

LEMMA ShowHitStep == ASSUME PinsInv, NEW p \in Resolvers, ShowHit(p) PROVE PinsInv'
<1>1. TabType /\ ConnInv
  BY TypeParts DEF PinsInv
<1>2. target[p] \in Handles /\ target[p] # NoTab
  BY <1>1, PinsFacts DEF ConnInv, ShowHit
<1>3. /\ Pin(p, target[p]) /\ UNCHANGED signerVars /\ UNCHANGED tabVars
      /\ up' = up /\ left' = left /\ pinFile' = pinFile /\ crashes' = crashes
      /\ shaken' = shaken
  BY DEF ShowHit
<1>4. TabType' /\ maker' = maker
  BY <1>1, <1>3 DEF TabType, tabVars
<1>5. MakersStay
  BY <1>4 DEF MakersStay
<1>6. BaseClients = {} => maker'[target[p]] = clientOf[p]
  BY <1>2, <1>4 DEF PinsInv, MakerInv
<1> QED BY <1>2, <1>3, <1>4, <1>5, <1>6, PinStep

LEMMA CreateStep == ASSUME PinsInv, NEW p \in Resolvers, Create(p) PROVE PinsInv'
<1>1. TabType /\ clientOf[p] \in Clients
  BY TypeParts, PinsFacts DEF PinsInv
<1>2. PICK h \in Handles : NewTab(clientOf[p], h) /\ Pin(p, h)
  BY DEF Create
<1>3. /\ UNCHANGED signerVars
      /\ up' = up /\ left' = left /\ pinFile' = pinFile /\ crashes' = crashes
      /\ shaken' = shaken
  BY DEF Create
<1>4. TabType' /\ MakersStay /\ maker'[h] = clientOf[p]
  BY <1>1, <1>2, NewTabType DEF MakersStay
<1> QED BY <1>2, <1>3, <1>4, PinStep

LEMMA StopStep ==
  ASSUME PinsInv, NEW p \in Resolvers, Stop(p), MakersStay, TabType', SignerTypeOK',
         pin' = pin, home' = home, fresh' = fresh, coordinators' = coordinators,
         written' \subseteq Clients, RestType',
         pinFile' \in {pinFile, Malformed} \cup {conn[q] : q \in Resolvers}
  PROVE  PinsInv'
<1>1. SignerTypeOK /\ PinType /\ ProcType /\ TabType /\ RestType /\ ConnInv
  BY TypeParts DEF PinsInv
<1>2. /\ ProcType' /\ ConnInv' /\ target'[p] = NoTab /\ conn'[p] = None
      /\ \A q \in Resolvers : q # p => target'[q] = target[q] /\ conn'[q] = conn[q]
  BY <1>1, StopType
<1>3. PinType' /\ PinsAreProtected'
  BY <1>1 DEF PinType, PinsAreProtected, PinsInv
<1>4. TypeOK'
  BY <1>2, <1>3 DEF TypeOK, PinType, ProcType, TabType, RestType
<1>5. MakerInv'
  <2> SUFFICES ASSUME BaseClients = {} PROVE MakerInv'
    BY DEF MakerInv
  <2>1. OwnTabs(pin', maker')
    BY <1>1, OwnTabsStays DEF PinsInv, MakerInv, PinType
  <2>2. \A q \in Resolvers : target'[q] \in {NoTab, target[q]}
    BY <1>2
  <2>3. \A q \in Resolvers : conn'[q] \in {conn[q], pinFile, None}
    BY <1>2
  <2> QED BY <2>1, <2>2, <2>3, MakerKeeps DEF PinsInv
<1> QED BY <1>2, <1>3, <1>4, <1>5 DEF PinsInv

LEMMA CreateFailsStep == ASSUME PinsInv, NEW p \in Resolvers, CreateFails(p) PROVE PinsInv'
<1>1. SignerTypeOK /\ PinType /\ TabType /\ RestType /\ clientOf[p] \in Clients
  BY TypeParts, PinsFacts DEF PinsInv
<1>2. /\ Stop(p) /\ UNCHANGED signerVars /\ up' = up /\ pin' = pin /\ fresh' = fresh
      /\ coordinators' = coordinators /\ pinFile' = pinFile /\ crashes' = crashes
      /\ home' = home /\ written' = written /\ shaken' = shaken /\ mishaps' = mishaps
  BY DEF CreateFails, hurtVars
<1>3. SignerTypeOK' /\ RestType' /\ written' \subseteq Clients
  BY <1>1, <1>2 DEF SignerTypeOK, signerVars, RestType, PinType
<1>4. TabType' /\ MakersStay
  <2>1. CASE UNCHANGED tabVars
    BY <1>1, <2>1 DEF TabType, tabVars, MakersStay
  <2>2. CASE \E h \in Handles : NewTab(clientOf[p], h)
    BY <1>1, <2>2, NewTabType DEF MakersStay
  <2> QED BY <2>1, <2>2 DEF CreateFails
<1> QED BY <1>2, <1>3, <1>4, StopStep

LEMMA WriteStep ==
  ASSUME PinsInv, NEW p \in Resolvers, WritePins(p) \/ PersistFails(p) PROVE PinsInv'
<1>1. SignerTypeOK /\ PinType /\ ProcType /\ TabType /\ RestType /\ ConnInv
      /\ clientOf[p] \in Clients
  BY TypeParts, PinsFacts DEF PinsInv
<1>2. /\ Stop(p) /\ UNCHANGED signerVars /\ UNCHANGED tabVars /\ up' = up /\ pin' = pin
      /\ fresh' = fresh /\ coordinators' = coordinators /\ crashes' = crashes
      /\ home' = home /\ shaken' = shaken
  BY DEF WritePins, PersistFails, hurtVars
<1>3. /\ written' \subseteq Clients /\ mishaps' \subseteq {"overlap", "lapse"}
  BY <1>1 DEF WritePins, PersistFails, PinType, RestType, hurtVars
<1>4. /\ pinFile' \in {pinFile, Malformed} \cup {conn[q] : q \in Resolvers}
      /\ pinFile' \in Stored
  BY <1>1 DEF WritePins, PersistFails, ConnInv, Stored, RestType
<1>5. SignerTypeOK' /\ RestType' /\ TabType' /\ MakersStay
  BY <1>1, <1>2, <1>3, <1>4
  DEF SignerTypeOK, signerVars, RestType, TabType, tabVars, MakersStay
<1> QED BY <1>2, <1>3, <1>4, <1>5, StopStep

-----------------------------------------------------------------------------
(* The steps of a persist. *)

LEMMA HoldStep ==
  ASSUME PinsInv, NEW p \in Resolvers, NEW label \in {"sign", "write"}, NEW held,
         label = "sign" => held \in [kind : {"request"}, payload : Payloads],
         label = "write" => held \in [kind : {"signed"}, env : Envelope],
         target[p] \in Handles, Goto(p, label, target[p]),
         conn' = [conn EXCEPT ![p] = held], left' = left,
         BaseClients = {} => Holds(held, maker),
         SignerTypeOK', mishaps' \subseteq {"overlap", "lapse"}, UNCHANGED tabVars,
         up' = up, pin' = pin, fresh' = fresh, coordinators' = coordinators,
         pinFile' = pinFile, crashes' = crashes, home' = home, written' = written,
         shaken' = shaken
  PROVE  PinsInv'
<1>1. PinType /\ ProcType /\ TabType /\ RestType /\ ConnInv
  BY TypeParts DEF PinsInv
<1>2. /\ ProcType' /\ ConnInv' /\ target'[p] = target[p] /\ conn'[p] = held
      /\ \A q \in Resolvers : q # p => target'[q] = target[q] /\ conn'[q] = conn[q]
  <2>1. label \in Steps /\ target[p] \in Handles \cup {NoTab}
    BY DEF Steps
  <2>2. /\ pc' \in [Resolvers -> Steps] /\ target' \in [Resolvers -> Handles \cup {NoTab}]
        /\ pc'[p] = label /\ target'[p] = target[p]
        /\ \A q \in Resolvers : q # p => pc'[q] = pc[q] /\ target'[q] = target[q]
    BY <1>1, <2>1, GotoType
  <2>3. held \in {None} \cup Stored \cup [kind : {"request"}, payload : Payloads]
    BY DEF Stored
  <2>4. /\ conn' \in [Resolvers -> {None} \cup Stored \cup [kind : {"request"}, payload : Payloads]]
        /\ conn'[p] = held /\ \A q \in Resolvers : q # p => conn'[q] = conn[q]
    BY <1>1, <2>3 DEF ProcType
  <2>5. ProcType'
    BY <1>1, <2>2, <2>4 DEF ProcType
  <2>6. ConnInv'
    BY <1>1, <2>2, <2>4 DEF ConnInv
  <2> QED BY <2>2, <2>4, <2>5, <2>6
<1>3. PinType' /\ RestType' /\ TabType' /\ PinsAreProtected' /\ maker' = maker
  <2>1. PinType'
    BY <1>1 DEF PinType
  <2>2. RestType'
    BY <1>1 DEF RestType
  <2>3. TabType' /\ maker' = maker
    BY <1>1 DEF TabType, tabVars
  <2>4. PinsAreProtected'
    BY DEF PinsAreProtected, PinsInv
  <2> QED BY <2>1, <2>2, <2>3, <2>4
<1>4. TypeOK'
  BY <1>2, <1>3 DEF TypeOK, PinType, ProcType, TabType, RestType
<1>5. MakerInv'
  <2> SUFFICES ASSUME BaseClients = {} PROVE MakerInv'
    BY DEF MakerInv
  <2>1. MakersStay /\ OwnTabs(pin', maker')
    BY <1>3 DEF MakersStay, PinsInv, MakerInv
  <2>2. \A q \in Resolvers : target'[q] \in {NoTab, target[q]}
    BY <1>2
  <2>3. \A q \in Resolvers : conn'[q] \in {conn[q], pinFile, None} \/ Holds(conn'[q], maker')
    BY <1>2, <1>3
  <2> QED BY <2>1, <2>2, <2>3, MakerKeeps DEF PinsInv
<1> QED BY <1>2, <1>3, <1>4, <1>5 DEF PinsInv

LEMMA MergeStep ==
  ASSUME PinsInv, NEW p \in Resolvers,
         MergeVerified(p) \/ MergeUnanswered(p) \/ MergeEmpty(p)
  PROVE  PinsInv'
<1>1. SignerTypeOK /\ PinType /\ ProcType /\ TabType /\ RestType /\ ConnInv
      /\ clientOf[p] \in Clients
  BY TypeParts, PinsFacts DEF PinsInv
<1>2. target[p] \in Handles /\ conn[p] \in Stored
  BY <1>1 DEF ConnInv, MergeVerified, MergeUnanswered, MergeEmpty
<1>3. conn[p].kind = "signed" => conn[p].env \in Envelope /\ conn[p].env.payload \in PinTable
  BY <1>2, PinsFacts DEF Stored, Missing, Malformed, Envelope
<1>4. PICK t \in PinTable :
        /\ SendMerged(p, t)
        /\ t = NoPins \/ (conn[p].kind = "signed" /\ t = conn[p].env.payload)
  <2>1. CASE MergeVerified(p)
    BY <1>3, <2>1, PinsFacts DEF MergeVerified
  <2>2. CASE MergeUnanswered(p) \/ MergeEmpty(p)
    BY <2>2, PinsFacts DEF MergeUnanswered, MergeEmpty
  <2> QED BY <2>1, <2>2
<1> DEFINE u == Merge(t, clientOf[p], target[p])
<1>5. u \in PinTable /\ u[clientOf[p]] = target[p]
      /\ \A c \in Clients : c # clientOf[p] => u[c] = t[c]
  BY <1>1, <1>2, <1>4 DEF Merge, PinTable
<1>6. BaseClients = {} => Holds(Request(u), maker)
  <2> SUFFICES ASSUME BaseClients = {} PROVE OwnTabs(u, maker)
    BY DEF Holds, Request
  <2>1. OwnTabs(t, maker)
    <3>1. OwnTabs(NoPins, maker)
      BY DEF OwnTabs, NoPins
    <3> QED BY <1>4, <3>1 DEF PinsInv, MakerInv, Holds
  <2>2. maker[target[p]] = clientOf[p]
    BY <1>2, PinsFacts DEF PinsInv, MakerInv
  <2> QED BY <1>5, <2>1, <2>2 DEF OwnTabs
<1>7. SignerTypeOK'
  <2>1. CASE MergeVerified(p)
    BY <1>1, <1>3, <2>1, VerifyTypes, PinsFacts DEF MergeVerified
  <2>2. CASE MergeUnanswered(p) \/ MergeEmpty(p)
    BY <1>1, <2>2 DEF MergeUnanswered, MergeEmpty, SignerTypeOK, signerVars
  <2> QED BY <2>1, <2>2
<1>8. /\ left' = left /\ UNCHANGED tabVars /\ up' = up /\ pin' = pin /\ fresh' = fresh
      /\ coordinators' = coordinators /\ pinFile' = pinFile /\ crashes' = crashes
      /\ home' = home /\ written' = written /\ shaken' = shaken
      /\ mishaps' \in {mishaps, mishaps \cup {"lapse"}}
  BY DEF MergeVerified, MergeUnanswered, MergeEmpty, hurtVars
<1>9. mishaps' \subseteq {"overlap", "lapse"}
  BY <1>1, <1>8 DEF RestType
<1>10. Goto(p, "sign", target[p]) /\ conn' = [conn EXCEPT ![p] = Request(u)]
  BY <1>4 DEF SendMerged
<1>11. Request(u) \in [kind : {"request"}, payload : Payloads]
  BY <1>5, PinsFacts DEF Request
<1> HIDE DEF u
<1> QED BY <1>2, <1>6, <1>7, <1>8, <1>9, <1>10, <1>11, HoldStep

LEMMA SignStep == ASSUME PinsInv, NEW p \in Resolvers, SignPins(p) PROVE PinsInv'
<1>1. SignerTypeOK /\ RestType /\ ConnInv
  BY TypeParts DEF PinsInv
<1>2. target[p] \in Handles /\ conn[p] \in [kind : {"request"}, payload : Payloads]
      /\ conn[p].payload \in Payloads /\ conn[p].kind = "request"
  BY <1>1 DEF ConnInv, SignPins
<1>3. SignerTypeOK' /\ reply'.env \in Envelope
  BY <1>1, <1>2, SignTypes, PinsFacts DEF SignPins
<1>4. reply'.env.payload = conn[p].payload
  BY DEF SignPins, HandleSign, SignReply
<1>5. BaseClients = {} => Holds(Signed(reply'.env), maker)
  BY <1>2, <1>4 DEF PinsInv, MakerInv, Holds, Signed
<1>6. Signed(reply'.env) \in [kind : {"signed"}, env : Envelope]
  BY <1>3 DEF Signed
<1>7. /\ conn' = [conn EXCEPT ![p] = Signed(reply'.env)] /\ Goto(p, "write", target[p])
      /\ left' = left /\ UNCHANGED tabVars /\ up' = up /\ pin' = pin /\ fresh' = fresh
      /\ coordinators' = coordinators /\ pinFile' = pinFile /\ crashes' = crashes
      /\ home' = home /\ written' = written /\ shaken' = shaken /\ mishaps' = mishaps
  BY DEF SignPins, hurtVars
<1>8. mishaps' \subseteq {"overlap", "lapse"}
  BY <1>1, <1>7 DEF RestType
<1> QED BY <1>2, <1>3, <1>5, <1>6, <1>7, <1>8, HoldStep

-----------------------------------------------------------------------------
(* What happens around the resolvers. *)

LEMMA AroundStep ==
  ASSUME PinsInv, TabType', MakersStay, left' \subseteq Locked, shaken' \subseteq Clients,
         fresh' \subseteq fresh, UNCHANGED signerVars, up' = up, pin' = pin,
         coordinators' = coordinators, pc' = pc, target' = target, conn' = conn,
         pinFile' = pinFile, crashes' = crashes, home' = home, written' = written,
         mishaps' = mishaps
  PROVE  PinsInv'
<1>1. SignerTypeOK /\ PinType /\ ProcType /\ RestType /\ ConnInv
  BY TypeParts DEF PinsInv
<1>2. SignerTypeOK'
  BY <1>1 DEF SignerTypeOK, signerVars
<1>3. PinType' /\ ProcType' /\ RestType'
  BY <1>1 DEF PinType, ProcType, RestType
<1>4. ConnInv' /\ PinsAreProtected'
  BY <1>1 DEF ConnInv, PinsAreProtected, PinsInv
<1>5. TypeOK'
  BY <1>2, <1>3 DEF TypeOK, PinType, ProcType, TabType, RestType
<1>6. MakerInv'
  <2> SUFFICES ASSUME BaseClients = {} PROVE MakerInv'
    BY DEF MakerInv
  <2>1. OwnTabs(pin', maker')
    BY <1>1, OwnTabsStays DEF PinsInv, MakerInv, PinType
  <2> QED BY <2>1, MakerKeeps DEF PinsInv
<1> QED BY <1>4, <1>5, <1>6 DEF PinsInv

LEMMA EventStep ==
  ASSUME PinsInv,
         \/ \E c \in Clients : Expire(c)
         \/ \E p \in Locked : Leave(p)
         \/ \E h \in Handles : CloseTab(h) \/ RewriteTitle(h)
  PROVE  PinsInv'
<1>1. PinType /\ ProcType /\ TabType /\ RestType
  BY TypeParts DEF PinsInv
<1>2. ASSUME NEW c \in Clients, Expire(c) PROVE PinsInv'
  <2>1. TabType' /\ MakersStay /\ left' \subseteq Locked /\ shaken' \subseteq Clients
    BY <1>1, <1>2
    DEF Expire, TabType, tabVars, MakersStay, ProcType, procVars, RestType, hurtVars
  <2> QED BY <1>2, <2>1, AroundStep DEF Expire, procVars, hurtVars
<1>3. ASSUME NEW p \in Locked, Leave(p) PROVE PinsInv'
  <2>1. clientOf[p] \in Clients
    BY PinsFacts
  <2>2. left' \subseteq Locked /\ shaken' \subseteq Clients
    BY <1>1, <1>3, <2>1 DEF Leave, ProcType, RestType
  <2>3. TabType' /\ MakersStay
    <3>1. CASE UNCHANGED tabVars
      BY <1>1, <3>1 DEF TabType, tabVars, MakersStay
    <3>2. CASE \E h \in Handles : NewTab(clientOf[p], h)
      BY <1>1, <2>1, <3>2, NewTabType DEF MakersStay
    <3> QED BY <1>3, <3>1, <3>2 DEF Leave
  <2> QED BY <1>3, <2>2, <2>3, AroundStep DEF Leave
<1>4. ASSUME NEW h \in Handles, CloseTab(h) \/ RewriteTitle(h) PROVE PinsInv'
  <2>1. /\ UNCHANGED <<signerVars, up, pin, fresh, coordinators, procVars, maker,
                       pinFile, crashes, home, written, hurtVars>>
        /\ live' \subseteq live /\ titled' \subseteq titled
        /\ closes' = closes \/ (closes < MaxCloses /\ closes' = closes + 1)
    BY <1>4 DEF CloseTab, RewriteTitle
  <2>2. closes' \in 0..MaxCloses
    BY <1>1, <2>1, PinsAssumption DEF TabType
  <2>3. TabType' /\ MakersStay
    BY <1>1, <2>1, <2>2 DEF TabType, MakersStay
  <2>4. left' \subseteq Locked /\ shaken' \subseteq Clients
    BY <1>1, <2>1 DEF ProcType, procVars, RestType, hurtVars
  <2> QED BY <2>1, <2>3, <2>4, AroundStep DEF procVars, hurtVars
<1> QED BY <1>2, <1>3, <1>4

(* A crash, and the load of the file. *)
LEMMA CrashStep == ASSUME PinsInv, BridgeCrash PROVE PinsInv'
<1>1. SignerTypeOK /\ PinType /\ ProcType /\ TabType /\ RestType
  BY TypeParts DEF PinsInv
<1>2. /\ UNCHANGED signerVars /\ UNCHANGED tabVars /\ home' = home /\ written' = written
      /\ shaken' = shaken /\ up' = FALSE /\ crashes < MaxCrashes /\ crashes' = crashes + 1
      /\ pin' = NoPins /\ fresh' = {} /\ coordinators' = {} /\ left' = {}
      /\ pc' = [p \in Resolvers |-> "idle"] /\ target' = [p \in Resolvers |-> NoTab]
      /\ conn' = [p \in Resolvers |-> None] /\ pinFile' \in {pinFile, Malformed}
      /\ mishaps' \in SUBSET {"overlap", "lapse"}
  BY <1>1 DEF BridgeCrash, RestType
<1>3. SignerTypeOK' /\ TabType' /\ maker' = maker
  BY <1>1, <1>2 DEF SignerTypeOK, signerVars, TabType, tabVars
<1>4. PinType' /\ PinsAreProtected'
  BY <1>1, <1>2, PinsFacts DEF PinType, PinsAreProtected, NoPins
<1>5. ProcType' /\ ConnInv'
  BY <1>2 DEF ProcType, ConnInv, Steps
<1>6. crashes' \in 0..MaxCrashes
  BY <1>1, <1>2, PinsAssumption DEF RestType
<1>7. pinFile' \in Stored /\ shaken' \subseteq Clients
  BY <1>1, <1>2 DEF RestType, Stored
<1>8. RestType'
  BY <1>2, <1>6, <1>7 DEF RestType
<1>9. TypeOK'
  BY <1>3, <1>4, <1>5, <1>8 DEF TypeOK, PinType, ProcType, TabType, RestType
<1>10. MakerInv'
  <2> SUFFICES ASSUME BaseClients = {} PROVE MakerInv'
    BY DEF MakerInv
  <2>1. MakersStay /\ OwnTabs(pin', maker')
    BY <1>2, <1>3 DEF MakersStay, OwnTabs, NoPins
  <2>2. /\ \A q \in Resolvers : target'[q] \in {NoTab, target[q]}
        /\ \A q \in Resolvers : conn'[q] \in {conn[q], pinFile, None}
    BY <1>2
  <2> QED BY <1>2, <2>1, <2>2, MakerKeeps DEF PinsInv
<1> QED BY <1>4, <1>5, <1>9, <1>10 DEF PinsInv

LEMMA LoadStep ==
  ASSUME PinsInv, StartVerified \/ StartWithoutFile \/ StartWithoutSigner PROVE PinsInv'
<1>1. SignerTypeOK /\ PinType /\ ProcType /\ TabType /\ RestType /\ ConnInv
  BY TypeParts DEF PinsInv
<1>2. pinFile.kind = "signed" => pinFile.env \in Envelope /\ pinFile.env.payload \in PinTable
  BY <1>1, PinsFacts DEF RestType, Stored, Missing, Malformed, Envelope
<1>3. PICK t \in PinTable :
        Load(t) /\ (t = NoPins \/ (pinFile.kind = "signed" /\ t = pinFile.env.payload))
  <2>1. CASE StartVerified
    BY <1>2, <2>1, PinsFacts DEF StartVerified
  <2>2. CASE StartWithoutFile \/ StartWithoutSigner
    BY <2>2, PinsFacts DEF StartWithoutFile, StartWithoutSigner
  <2> QED BY <2>1, <2>2
<1>4. SignerTypeOK'
  <2>1. CASE StartVerified
    BY <1>1, <1>2, <2>1, VerifyTypes, PinsFacts DEF StartVerified
  <2>2. CASE StartWithoutFile \/ StartWithoutSigner
    BY <1>1, <2>2 DEF StartWithoutFile, StartWithoutSigner, SignerTypeOK, signerVars
  <2> QED BY <2>1, <2>2
<1>5. /\ up' = TRUE /\ pin' = t /\ fresh' = fresh /\ UNCHANGED tabVars /\ pinFile' = pinFile
      /\ pc' = pc /\ target' = target /\ conn' = conn /\ left' = left
      /\ crashes' = crashes /\ written' = written /\ shaken' = shaken
      /\ home' = [c \in Clients |-> IF t[c] = NoTab THEN home[c] ELSE t[c]]
      /\ coordinators' = {t[c] : c \in Clients} \ {NoTab}
  BY <1>3 DEF Load, procVars
<1>6. mishaps' \subseteq {"overlap", "lapse"}
  BY <1>1 DEF StartVerified, StartWithoutFile, StartWithoutSigner, RestType
<1>7. PinType' /\ PinsAreProtected'
  BY <1>1, <1>5 DEF PinType, PinTable, PinsAreProtected
<1>8. ProcType' /\ ConnInv' /\ TabType' /\ maker' = maker
  BY <1>1, <1>5 DEF ProcType, ConnInv, TabType, tabVars
<1>9. RestType'
  BY <1>1, <1>5, <1>6 DEF RestType
<1>10. TypeOK'
  BY <1>4, <1>7, <1>8, <1>9 DEF TypeOK, PinType, ProcType, TabType, RestType
<1>11. MakerInv'
  <2> SUFFICES ASSUME BaseClients = {} PROVE MakerInv'
    BY DEF MakerInv
  <2>1. OwnTabs(t, maker)
    <3>1. OwnTabs(NoPins, maker)
      BY DEF OwnTabs, NoPins
    <3> QED BY <1>3, <3>1 DEF PinsInv, MakerInv, Holds
  <2>2. MakersStay /\ OwnTabs(pin', maker')
    BY <1>5, <1>8, <2>1 DEF MakersStay
  <2> QED BY <1>5, <2>2, MakerKeeps DEF PinsInv
<1> QED BY <1>7, <1>8, <1>10, <1>11 DEF PinsInv

-----------------------------------------------------------------------------

LEMMA PinsInit == Init => PinsInv
<1> SUFFICES ASSUME Init PROVE PinsInv
  OBVIOUS
<1>1. SignerTypeOK
  BY SignerAssumption DEF Init, SignerInit, SignerTypeOK, SeqRecord, NoRecord, NoEnvelope,
     NoReply, Reply
<1>2. PinType /\ PinsAreProtected
  BY PinsFacts DEF Init, PinType, PinsAreProtected, NoPins
<1>3. ProcType /\ ConnInv
  BY DEF Init, ProcType, ConnInv, Steps
<1>4. TabType
  BY PinsAssumption DEF Init, TabType
<1>5. RestType
  BY PinsAssumption DEF Init, RestType, Stored
<1>6. MakerInv
  BY DEF Init, MakerInv, OwnTabs, NoPins, Holds, None, Missing
<1> QED BY <1>1, <1>2, <1>3, <1>4, <1>5, <1>6, TypeParts DEF PinsInv

LEMMA PinsStep == PinsInv /\ [Next]_vars => PinsInv'
<1> SUFFICES ASSUME PinsInv, [Next]_vars PROVE PinsInv'
  OBVIOUS
<1>1. CASE UNCHANGED vars
  <2>1. PinType /\ ProcType /\ TabType /\ RestType
    BY TypeParts DEF PinsInv
  <2>2. /\ UNCHANGED signerVars /\ up' = up /\ pin' = pin /\ fresh' = fresh
        /\ coordinators' = coordinators /\ pc' = pc /\ target' = target /\ conn' = conn
        /\ left' = left /\ UNCHANGED tabVars /\ pinFile' = pinFile /\ crashes' = crashes
        /\ home' = home /\ written' = written /\ shaken' = shaken /\ mishaps' = mishaps
    BY <1>1 DEF vars, procVars, hurtVars
  <2>3. TabType' /\ MakersStay /\ left' \subseteq Locked /\ shaken' \subseteq Clients
    BY <2>1, <2>2 DEF TabType, tabVars, MakersStay, ProcType, RestType
  <2> QED BY <2>2, <2>3, AroundStep
<1> QED BY <1>1, StartStep, ShowHitStep, ShowMissStep, ListStep, CreateStep, CreateFailsStep,
           MergeStep, SignStep, WriteStep, EventStep, CrashStep, LoadStep DEF Next

(* The inductive invariant of SenderPins. *)
THEOREM PinsInvariant == Spec => []PinsInv
BY PinsInit, PinsStep, PTL DEF Spec

(* Every variable of the bridge, the tabs and the signer stays in its type. *)
THEOREM PinsTypeCorrect == Spec => []TypeOK
<1>1. PinsInv => TypeOK
  BY DEF PinsInv
<1> QED BY <1>1, PinsInvariant, PTL

(* Whatever tab is pinned for a client is known as a coordinator's, through lost
   answers, departing clients, crashes and restarts (rememberCoordinatorHandle). *)
THEOREM PinsProtected == Spec => []PinsAreProtected
<1>1. PinsInv => PinsAreProtected
  BY DEF PinsInv
<1> QED BY <1>1, PinsInvariant, PTL

(* Where every client has a title of its own, no tab is ever pinned for two: a tab
   that is pinned was made for its client (resolveSenderTerminal, mergePins). *)
THEOREM PinsDistinct ==
  ASSUME BaseClients = {}
  PROVE  Spec => []PinsAreDistinct
<1>1. PinsInv => PinsAreDistinct
  BY DEF PinsInv, MakerInv, OwnTabs, PinsAreDistinct
<1> QED BY <1>1, PinsInvariant, PTL

-----------------------------------------------------------------------------
(* Where persists neither overlap nor are cut short, the file has every pin but the
   one that is being persisted, and the signer will find it fresh. *)

FileTable == IF pinFile.kind = "signed" THEN pinFile.env.payload ELSE NoPins

PersistOf(p) ==
  /\ target[p] = home[clientOf[p]]
  /\ pc[p] = "read" => conn[p] = pinFile
  /\ pc[p] = "sign" => conn[p].payload = home
  /\ pc[p] = "write" => conn[p].env.payload = home /\ Current(Store, conn[p].env)

OrderlyFile ==
  /\ pinFile.kind \in {"missing", "signed"}
  /\ (\A p \in Resolvers : pc[p] # "write") /\ pinFile.kind = "signed" =>
       Current(Store, pinFile.env)
  /\ \A p, q \in Resolvers : Persisting(p) /\ Persisting(q) => p = q
  /\ \A p \in Resolvers : Persisting(p) => PersistOf(p)
  /\ \A c \in Clients : \/ FileTable[c] = home[c]
                        \/ \E p \in Resolvers : Persisting(p) /\ clientOf[p] = c

(* A pin that is missing, or that a resolver has given up, is that of a dead tab. *)
SearchOf(p) ==
  /\ pc[p] = "show" => target[p] = home[clientOf[p]]
  /\ pc[p] \in {"list", "showTitle", "showSuffix", "create"} => home[clientOf[p]] \notin live

UnshakenOf(c) ==
  /\ \A p, q \in Resolvers :
       /\ clientOf[p] = c /\ clientOf[q] = c /\ pc[p] # "idle" /\ pc[q] # "idle" => p = q
  /\ \A p \in Resolvers : clientOf[p] = c => SearchOf(p)
  /\ up /\ pin[c] = NoTab => home[c] \notin live

MadeTabs ==
  /\ \A h \in live : maker[h] # NoClient
  /\ \A c \in Clients : home[c] # NoTab => maker[home[c]] # NoClient

PinIsHome ==
  /\ ~up => \A p \in Resolvers : pc[p] = "idle"
  /\ up => \A c \in Clients : pin[c] \in {NoTab, home[c]}
  /\ \A c \in written : home[c] # NoTab

HomeInv == SeqFileIsBehind(Store) /\ PinIsHome

CalmInv == mishaps = {} => /\ OrderlyFile /\ MadeTabs
                           /\ \A c \in Clients \ shaken : UnshakenOf(c)

(* A mishap, and what shook a client, are not forgotten. *)
LEMMA HistoryStays == ASSUME [Next]_vars PROVE mishaps \subseteq mishaps' /\ shaken \subseteq shaken'
BY DEF Next, vars, hurtVars, Start, ShowHit, ShowMiss, ListHit, ListMiss, Create, CreateFails,
   Pin, MergeVerified, MergeUnanswered, MergeEmpty, SignPins, WritePins, PersistFails, Expire,
   Leave, CloseTab, RewriteTitle, BridgeCrash, StartVerified, StartWithoutFile,
   StartWithoutSigner, Load

(* What a resolver holds is what it is to hold. *)
LEMMA HeldTypes ==
  ASSUME PinsInv
  PROVE  /\ SignerTypeOK /\ PinType /\ ProcType /\ TabType /\ RestType /\ ConnInv
         /\ pinFile.kind = "signed" => pinFile.env \in Envelope /\ pinFile.env.payload \in PinTable
         /\ \A p \in Resolvers :
              /\ clientOf[p] \in Clients
              /\ pc[p] = "read" => conn[p] \in Stored
              /\ pc[p] = "sign" => conn[p].payload \in Payloads
              /\ pc[p] = "write" => conn[p] \in [kind : {"signed"}, env : Envelope]
              /\ pc[p] = "write" => conn[p].kind = "signed" /\ conn[p].env \in Envelope
<1>1. SignerTypeOK /\ PinType /\ ProcType /\ TabType /\ RestType /\ ConnInv
  BY TypeParts DEF PinsInv
<1>2. pinFile.kind = "signed" => pinFile.env \in Envelope /\ pinFile.env.payload \in PinTable
  BY <1>1, PinsFacts DEF RestType, Stored, Missing, Malformed, Envelope
<1>3. \A p \in Resolvers : clientOf[p] \in Clients
  BY PinsFacts
<1>4. \A p \in Resolvers :
        /\ pc[p] = "read" => conn[p] \in Stored
        /\ pc[p] = "sign" => conn[p].payload \in Payloads
        /\ pc[p] = "write" => conn[p] \in [kind : {"signed"}, env : Envelope]
        /\ pc[p] = "write" => conn[p].kind = "signed" /\ conn[p].env \in Envelope
  BY <1>1 DEF ConnInv
<1> QED BY <1>1, <1>2, <1>3, <1>4

(* Setting a pin. *)
LEMMA PinEffect ==
  ASSUME PinsInv, NEW p \in Resolvers, NEW h \in Handles, Pin(p, h)
  PROVE  /\ pin'[clientOf[p]] = h /\ home'[clientOf[p]] = h
         /\ \A c \in Clients : c # clientOf[p] => pin'[c] = pin[c] /\ home'[c] = home[c]
         /\ pc'[p] = "read" /\ target'[p] = h /\ conn'[p] = pinFile
         /\ \A q \in Resolvers : q # p => pc'[q] = pc[q] /\ target'[q] = target[q] /\ conn'[q] = conn[q]
         /\ h # NoTab
<1>1. PinType /\ ProcType /\ clientOf[p] \in Clients
  BY HeldTypes
<1>2. /\ pin' = [pin EXCEPT ![clientOf[p]] = h] /\ home' = [home EXCEPT ![clientOf[p]] = h]
      /\ Goto(p, "read", h) /\ conn' = [conn EXCEPT ![p] = pinFile]
  BY DEF Pin
<1>3. "read" \in Steps /\ h \in Handles \cup {NoTab} /\ h # NoTab
  BY PinsFacts DEF Steps
<1>4. /\ pc'[p] = "read" /\ target'[p] = h
      /\ \A q \in Resolvers : q # p => pc'[q] = pc[q] /\ target'[q] = target[q]
  BY <1>1, <1>2, <1>3, GotoType
<1>5. conn'[p] = pinFile /\ \A q \in Resolvers : q # p => conn'[q] = conn[q]
  BY <1>1, <1>2 DEF ProcType
<1>6. /\ pin'[clientOf[p]] = h /\ home'[clientOf[p]] = h
      /\ \A c \in Clients : c # clientOf[p] => pin'[c] = pin[c] /\ home'[c] = home[c]
  BY <1>1, <1>2 DEF PinType, PinTable
<1> QED BY <1>3, <1>4, <1>5, <1>6

(* The steps of the signer among those of the bridge. *)
LEMMA BehindStep ==
  ASSUME PinsInv, SeqFileIsBehind(Store), [Next]_vars
  PROVE  SeqFileIsBehind(Store)'
<1>0. SignerTypeOK /\ Store \in Stores
  BY HeldTypes, PinsFacts
<1>1. ASSUME NEW p \in Resolvers, MergeVerified(p) PROVE SeqFileIsBehind(Store)'
  <2>1. conn[p] \in Stored /\ conn[p].kind = "signed" /\ HandleVerify(Store, conn[p].env)
    BY <1>1, HeldTypes DEF MergeVerified
  <2>2. conn[p].env \in Envelope
    BY <2>1 DEF Stored, Missing, Malformed
  <2> QED BY <1>0, <2>1, <2>2, VerifyKeepsCurrent
<1>2. ASSUME NEW p \in Resolvers, SignPins(p) PROVE SeqFileIsBehind(Store)'
  <2>1. conn[p].payload \in Payloads /\ HandleSign(Store, conn[p].payload)
    BY <1>2, HeldTypes DEF SignPins
  <2> QED BY <1>0, <2>1, SignIsCurrent
<1>3. CASE StartVerified
  <2>1. pinFile.env \in Envelope /\ HandleVerify(Store, pinFile.env)
    BY <1>3, HeldTypes DEF StartVerified
  <2> QED BY <1>0, <2>1, VerifyKeepsCurrent
<1>4. CASE UNCHANGED signerVars
  BY <1>4 DEF signerVars, SeqFileIsBehind
<1> QED
  BY <1>1, <1>2, <1>3, <1>4
  DEF Next, vars, Start, ShowHit, ShowMiss, ListHit, ListMiss, Create, CreateFails,
      MergeUnanswered, MergeEmpty, WritePins, PersistFails, Expire, Leave, CloseTab,
      RewriteTitle, BridgeCrash, StartWithoutFile, StartWithoutSigner

(* A client's pin is the one it had last, or none. *)
LEMMA HomeStep ==
  ASSUME PinsInv, PinIsHome, [Next]_vars
  PROVE  PinIsHome'
<1>0. PinType /\ ProcType /\ \A p \in Resolvers : clientOf[p] \in Clients
  BY HeldTypes
<1>1. ASSUME NEW p \in Resolvers, ShowHit(p) \/ Create(p) PROVE PinIsHome'
  <2>1. PICK h \in Handles : Pin(p, h)
    BY <1>1, HeldTypes DEF ShowHit, Create, ConnInv
  <2>2. /\ pin'[clientOf[p]] = h /\ home'[clientOf[p]] = h /\ h # NoTab
        /\ \A c \in Clients : c # clientOf[p] => pin'[c] = pin[c] /\ home'[c] = home[c]
    BY <2>1, PinEffect
  <2>3. up /\ up' = up /\ written' \subseteq written
    BY <1>1, <2>1 DEF ShowHit, Create, Pin
  <2> QED BY <1>0, <2>2, <2>3 DEF PinIsHome, PinType
<1>2. ASSUME NEW p \in Resolvers,
             \/ Start(p) \/ ListHit(p) \/ ListMiss(p) \/ CreateFails(p) \/ MergeVerified(p)
             \/ MergeUnanswered(p) \/ MergeEmpty(p) \/ SignPins(p) \/ PersistFails(p)
      PROVE  PinIsHome'
  BY <1>2 DEF PinIsHome, Start, ListHit, ListMiss, CreateFails, MergeVerified, MergeUnanswered,
     MergeEmpty, SignPins, PersistFails
<1>3. ASSUME NEW p \in Resolvers, ShowMiss(p) PROVE PinIsHome'
  <2>1. /\ up /\ up' = up /\ home' = home /\ written' = written
        /\ pin' = pin \/ pin' = [pin EXCEPT ![clientOf[p]] = NoTab]
    BY <1>3 DEF ShowMiss
  <2> QED BY <1>0, <2>1 DEF PinIsHome, PinType, PinTable
<1>4. ASSUME NEW p \in Resolvers, WritePins(p) PROVE PinIsHome'
  <2>1. target[p] \in Handles /\ target[p] # NoTab
    BY <1>4, HeldTypes, PinsFacts DEF ConnInv, WritePins
  <2>2. /\ up /\ up' = up /\ home' = home /\ pin' = pin
        /\ written' = IF home[clientOf[p]] = target[p] THEN written \cup {clientOf[p]} ELSE written
    BY <1>4 DEF WritePins
  <2> QED BY <2>1, <2>2 DEF PinIsHome
<1>5. ASSUME \/ \E c \in Clients : Expire(c)
             \/ \E p \in Locked : Leave(p)
             \/ \E h \in Handles : CloseTab(h) \/ RewriteTitle(h)
      PROVE  PinIsHome'
  BY <1>5 DEF PinIsHome, Expire, Leave, CloseTab, RewriteTitle, procVars
<1>6. CASE BridgeCrash
  BY <1>6 DEF PinIsHome, BridgeCrash
<1>7. CASE StartVerified \/ StartWithoutFile \/ StartWithoutSigner
  <2>1. PICK t : Load(t)
    BY <1>7 DEF StartVerified, StartWithoutFile, StartWithoutSigner
  <2>2. /\ up' /\ pin' = t /\ written' = written
        /\ home' = [c \in Clients |-> IF t[c] = NoTab THEN home[c] ELSE t[c]]
    BY <2>1 DEF Load
  <2> QED BY <1>0, <2>2 DEF PinIsHome, PinType
<1>8. CASE UNCHANGED vars
  BY <1>8 DEF PinIsHome, vars, procVars
<1> QED BY <1>1, <1>2, <1>3, <1>4, <1>5, <1>6, <1>7, <1>8 DEF Next

(* While no persist is under way, a file that is loaded brings back every pin. *)
LEMMA LoadIsHome ==
  ASSUME PinsInv, PinIsHome, SeqFileIsBehind(Store), OrderlyFile,
         StartVerified \/ StartWithoutFile
  PROVE  /\ pin' = home /\ home' = home
         /\ pinFile.kind = "signed" => Current(Store, pinFile.env)'
<1>0. /\ PinType /\ SignerTypeOK /\ Store \in Stores /\ NoPins \in PinTable
      /\ pinFile.kind = "signed" => pinFile.env \in Envelope /\ pinFile.env.payload \in PinTable
  BY HeldTypes, PinsFacts
<1>1. ~up /\ \A p \in Resolvers : pc[p] = "idle"
  BY DEF StartVerified, StartWithoutFile, PinIsHome
<1>2. \A p \in Resolvers : ~Persisting(p) /\ pc[p] # "write"
  BY <1>1 DEF Persisting
<1>3. FileTable = home
  <2>1. \A c \in Clients : FileTable[c] = home[c]
    BY <1>2 DEF OrderlyFile
  <2>2. FileTable \in PinTable /\ home \in PinTable
    BY <1>0 DEF FileTable, PinType
  <2> QED BY <2>1, <2>2 DEF PinTable
<1>4. Load(home) /\ (pinFile.kind = "signed" => Current(Store, pinFile.env)')
  <2>1. CASE StartVerified
    <3>1. pinFile.kind = "signed" /\ HandleVerify(Store, pinFile.env)
      BY <2>1 DEF StartVerified
    <3>2. Current(Store, pinFile.env)
      BY <1>2, <3>1 DEF OrderlyFile
    <3>3. reply'.verdict = "valid" /\ pinFile' = pinFile
      BY <1>0, <2>1, <3>1, <3>2, VerifyKeepsCurrent DEF StartVerified, Load
    <3>4. Current(Store, pinFile.env)'
      BY <1>0, <3>1, <3>2, <3>3, VerifyKeepsCurrent DEF Current
    <3> QED BY <1>3, <2>1, <3>1, <3>3, <3>4 DEF StartVerified, FileTable
  <2>2. CASE StartWithoutFile
    <3>1. pinFile.kind # "signed" /\ Load(NoPins)
      BY <2>2 DEF StartWithoutFile
    <3> QED BY <1>3, <3>1 DEF FileTable, Load
  <2> QED BY <2>1, <2>2
<1>5. home' = home
  <2>1. home' = [c \in Clients |-> home[c]]
    BY <1>4 DEF Load
  <2> QED BY <1>0, <2>1 DEF PinType, PinTable
<1> QED BY <1>4, <1>5 DEF Load

(* A new tab is nobody's home yet. *)
LEMMA NewTabIsMade ==
  ASSUME PinsInv, MadeTabs, NEW c \in Clients, NEW h \in Handles, NewTab(c, h)
  PROVE  /\ \A g \in live' : maker'[g] # NoClient
         /\ \A d \in Clients : /\ home[d] # NoTab => maker'[home[d]] # NoClient
                               /\ home[d] \notin live => home[d] \notin live'
<1>1. /\ TabType /\ PinType /\ c # NoClient /\ NoTab \notin Handles
      /\ \A d \in Clients : home[d] \in Handles \cup {NoTab}
  BY HeldTypes, PinsFacts DEF PinType, PinTable
<1>2. /\ maker'[h] = c /\ maker[h] = NoClient
      /\ \A g \in Handles : g # h => maker'[g] = maker[g]
  BY <1>1, NewTabType
<1>3. live' = live \cup {h} /\ live \subseteq Handles
  BY <1>1 DEF NewTab, TabType
<1> QED BY <1>1, <1>2, <1>3 DEF MadeTabs

(* Every live tab, and every tab that was pinned, has been created. *)
LEMMA MadeStep ==
  ASSUME PinsInv, HomeInv, OrderlyFile, MadeTabs, [Next]_vars, mishaps' = {}
  PROVE  MadeTabs'
<1>0. /\ PinType /\ TabType /\ NoTab \notin Handles
      /\ \A p \in Resolvers : clientOf[p] \in Clients /\ clientOf[p] # NoClient
  BY HeldTypes, PinsFacts
<1>1. ASSUME NEW p \in Resolvers, ShowHit(p) PROVE MadeTabs'
  <2>1. target[p] \in live /\ live \subseteq Handles /\ Pin(p, target[p]) /\ UNCHANGED tabVars
    BY <1>0, <1>1 DEF ShowHit, TabType
  <2>2. /\ home'[clientOf[p]] = target[p]
        /\ \A c \in Clients : c # clientOf[p] => home'[c] = home[c]
    BY <2>1, PinEffect
  <2> QED BY <2>1, <2>2 DEF MadeTabs, tabVars
<1>2. ASSUME NEW p \in Resolvers, Create(p) PROVE MadeTabs'
  <2>1. PICK h \in Handles : NewTab(clientOf[p], h) /\ Pin(p, h)
    BY <1>2 DEF Create
  <2>2. /\ home'[clientOf[p]] = h
        /\ \A c \in Clients : c # clientOf[p] => home'[c] = home[c]
    BY <2>1, PinEffect
  <2>3. h \in live'
    BY <2>1 DEF NewTab
  <2> QED BY <1>0, <2>1, <2>2, <2>3, NewTabIsMade DEF MadeTabs
<1>3. ASSUME NEW p \in Resolvers, CreateFails(p) \/ Leave(p) PROVE MadeTabs'
  <2>1. home' = home /\ (UNCHANGED tabVars \/ \E h \in Handles : NewTab(clientOf[p], h))
    BY <1>3 DEF CreateFails, Leave
  <2>2. CASE UNCHANGED tabVars
    BY <2>1, <2>2 DEF MadeTabs, tabVars
  <2>3. CASE \E h \in Handles : NewTab(clientOf[p], h)
    BY <1>0, <2>1, <2>3, NewTabIsMade DEF MadeTabs
  <2> QED BY <2>1, <2>2, <2>3
<1>4. ASSUME home' = home, maker' = maker, live' \subseteq live PROVE MadeTabs'
  BY <1>4 DEF MadeTabs
<1>5. CASE StartVerified \/ StartWithoutFile
  <2>1. home' = home
    BY <1>5, LoadIsHome DEF HomeInv
  <2> QED BY <1>4, <1>5, <2>1 DEF StartVerified, StartWithoutFile, Load, tabVars
<1>6. CASE StartWithoutSigner
  BY <1>6 DEF StartWithoutSigner
<1>7. ASSUME NEW p \in Resolvers,
             \/ Start(p) \/ ShowMiss(p) \/ ListHit(p) \/ ListMiss(p) \/ MergeVerified(p)
             \/ MergeUnanswered(p) \/ MergeEmpty(p) \/ SignPins(p) \/ WritePins(p) \/ PersistFails(p)
      PROVE  MadeTabs'
  BY <1>4, <1>7 DEF Start, ShowMiss, ListHit, ListMiss, MergeVerified, MergeUnanswered, MergeEmpty,
     SignPins, WritePins, PersistFails, tabVars
<1>8. ASSUME \/ \E c \in Clients : Expire(c)
             \/ \E h \in Handles : CloseTab(h) \/ RewriteTitle(h)
             \/ BridgeCrash \/ UNCHANGED vars
      PROVE  MadeTabs'
  BY <1>4, <1>8 DEF Expire, CloseTab, RewriteTitle, BridgeCrash, vars, tabVars
<1> QED
  BY <1>1, <1>2, <1>3, <1>5, <1>6, <1>7, <1>8, PinsAssumption DEF Next

-----------------------------------------------------------------------------
(* The file. *)

(* Steps that no persist notices. *)
LEMMA FileKeeps ==
  ASSUME OrderlyFile, home' = home, pinFile' = pinFile, UNCHANGED signerVars,
         \A q \in Resolvers :
           \/ pc'[q] = pc[q] /\ target'[q] = target[q] /\ conn'[q] = conn[q]
           \/ ~Persisting(q) /\ ~Persisting(q)'
  PROVE  OrderlyFile'
<1>1. \A q \in Resolvers : /\ Persisting(q)' <=> Persisting(q)
                           /\ pc'[q] = "write" <=> pc[q] = "write"
                           /\ Persisting(q) => pc'[q] = pc[q] /\ target'[q] = target[q] /\ conn'[q] = conn[q]
  BY DEF Persisting
<1>2. \A e : Current(Store, e)' <=> Current(Store, e)
  BY DEF Current, signerVars
<1>3. FileTable' = FileTable
  BY DEF FileTable
<1>4. \A q \in Resolvers : Persisting(q)' => PersistOf(q)'
  BY <1>1 DEF OrderlyFile, PersistOf, Current, signerVars
<1>5. /\ pinFile'.kind \in {"missing", "signed"}
      /\ (\A p \in Resolvers : pc'[p] # "write") /\ pinFile'.kind = "signed" =>
           Current(Store, pinFile.env)'
  BY <1>1 DEF OrderlyFile, Current, signerVars
<1>6. \A p, q \in Resolvers : Persisting(p)' /\ Persisting(q)' => p = q
  BY <1>1 DEF OrderlyFile
<1>7. \A c \in Clients : \/ FileTable'[c] = home'[c]
                         \/ \E p \in Resolvers : Persisting(p)' /\ clientOf[p] = c
  BY <1>1, <1>3 DEF OrderlyFile
<1> QED BY <1>4, <1>5, <1>6, <1>7 DEF OrderlyFile

(* A new pin, which the persist it starts reads the file for. *)
LEMMA FilePin ==
  ASSUME PinsInv, OrderlyFile, mishaps' = {}, NEW p \in Resolvers, NEW h \in Handles, Pin(p, h),
         pinFile' = pinFile, UNCHANGED signerVars
  PROVE  OrderlyFile'
<1>1. /\ home'[clientOf[p]] = h
      /\ \A c \in Clients : c # clientOf[p] => home'[c] = home[c]
      /\ pc'[p] = "read" /\ target'[p] = h /\ conn'[p] = pinFile
      /\ \A q \in Resolvers : q # p => pc'[q] = pc[q] /\ target'[q] = target[q] /\ conn'[q] = conn[q]
  BY PinEffect
<1>2. \A q \in Resolvers : ~Persisting(q)
  BY DEF Pin
<1>3. /\ \A q \in Resolvers : Persisting(q)' <=> q = p
      /\ \A q \in Resolvers : pc[q] # "write" /\ pc'[q] # "write"
  BY <1>1, <1>2 DEF Persisting
<1>4. \A e : Current(Store, e)' <=> Current(Store, e)
  BY DEF Current, signerVars
<1>5. PersistOf(p)'
  BY <1>1 DEF PersistOf
<1>6. FileTable' = FileTable
  BY DEF FileTable
<1>7. \A c \in Clients : FileTable'[c] = home'[c] \/ (Persisting(p)' /\ clientOf[p] = c)
  BY <1>1, <1>2, <1>3, <1>6 DEF OrderlyFile
<1>8. /\ pinFile'.kind \in {"missing", "signed"}
      /\ pinFile'.kind = "signed" => Current(Store, pinFile.env)'
  BY <1>3 DEF OrderlyFile, Current, signerVars
<1> QED BY <1>3, <1>5, <1>7, <1>8 DEF OrderlyFile

(* The merged table is all the pins. *)
LEMMA MergeIsHome ==
  ASSUME PinsInv, OrderlyFile, NEW p \in Resolvers, Persisting(p)
  PROVE  Merge(FileTable, clientOf[p], target[p]) = home
<1>1. FileTable \in PinTable /\ home \in PinTable /\ clientOf[p] \in Clients
  BY HeldTypes, PinsFacts DEF FileTable, PinType
<1>2. \A q \in Resolvers : Persisting(q) => q = p
  BY DEF OrderlyFile
<1>3. /\ home[clientOf[p]] = target[p]
      /\ \A c \in Clients : c # clientOf[p] => FileTable[c] = home[c]
  BY <1>2 DEF OrderlyFile, PersistOf
<1> QED BY <1>1, <1>3 DEF Merge, PinTable

LEMMA FileMerge ==
  ASSUME PinsInv, SeqFileIsBehind(Store), OrderlyFile, NEW p \in Resolvers,
         MergeVerified(p) \/ MergeEmpty(p)
  PROVE  OrderlyFile'
<1>0. ProcType /\ SignerTypeOK /\ Store \in Stores
  BY HeldTypes, PinsFacts
<1>1. /\ pc[p] = "read" /\ Persisting(p) /\ conn[p] = pinFile
      /\ pinFile' = pinFile /\ home' = home
  BY DEF MergeVerified, MergeEmpty, Persisting, OrderlyFile, PersistOf
<1>2. \A q \in Resolvers : Persisting(q) => q = p
  BY <1>1 DEF OrderlyFile
<1>3. pinFile.kind = "signed" => Current(Store, pinFile.env)
  BY <1>1, <1>2 DEF OrderlyFile, Persisting
<1>4. SendMerged(p, FileTable) /\ (pinFile.kind = "signed" => Current(Store, pinFile.env)')
  <2>1. CASE MergeVerified(p)
    <3>1. pinFile.kind = "signed" /\ HandleVerify(Store, pinFile.env) /\ pinFile.env \in Envelope
      BY <1>1, <2>1, HeldTypes DEF MergeVerified
    <3>2. reply'.verdict = "valid"
      BY <1>0, <1>3, <3>1, VerifyKeepsCurrent
    <3>3. Current(Store, pinFile.env)'
      BY <1>0, <1>1, <1>3, <3>1, VerifyKeepsCurrent DEF Current
    <3> QED BY <1>1, <2>1, <3>1, <3>2, <3>3 DEF MergeVerified, FileTable
  <2>2. CASE MergeEmpty(p)
    BY <1>1, <2>2 DEF MergeEmpty, FileTable
  <2> QED BY <2>1, <2>2
<1>5. /\ conn' = [conn EXCEPT ![p] = Request(home)] /\ Goto(p, "sign", target[p])
  BY <1>1, <1>4, MergeIsHome DEF SendMerged
<1>6. /\ pc'[p] = "sign" /\ target'[p] = target[p] /\ conn'[p].payload = home
      /\ \A q \in Resolvers : q # p => pc'[q] = pc[q]
  <2>1. conn'[p] = Request(home)
    BY <1>0, <1>5 DEF ProcType
  <2>2. pc' = [pc EXCEPT ![p] = "sign"] /\ target' = [target EXCEPT ![p] = target[p]]
    BY <1>5 DEF Goto
  <2> QED BY <1>0, <2>1, <2>2 DEF ProcType, Request
<1>7. /\ \A q \in Resolvers : Persisting(q)' <=> q = p
      /\ \A q \in Resolvers : pc'[q] # "write"
  BY <1>2, <1>6 DEF Persisting
<1>8. PersistOf(p)'
  BY <1>1, <1>6 DEF PersistOf, OrderlyFile
<1>9. FileTable' = FileTable
  BY <1>1 DEF FileTable
<1>10. \A c \in Clients : FileTable'[c] = home'[c] \/ (Persisting(p)' /\ clientOf[p] = c)
  BY <1>1, <1>2, <1>7, <1>9 DEF OrderlyFile
<1>11. pinFile'.kind \in {"missing", "signed"}
  BY <1>1 DEF OrderlyFile
<1>12. pinFile'.kind = "signed" => Current(Store, pinFile.env)'
  BY <1>1, <1>4
<1> QED BY <1>7, <1>8, <1>10, <1>11, <1>12 DEF OrderlyFile

LEMMA FileSign ==
  ASSUME PinsInv, SeqFileIsBehind(Store), OrderlyFile, NEW p \in Resolvers, SignPins(p)
  PROVE  OrderlyFile'
<1>0. ProcType /\ SignerTypeOK /\ Store \in Stores
  BY HeldTypes, PinsFacts
<1>1. /\ pc[p] = "sign" /\ Persisting(p) /\ pinFile' = pinFile /\ home' = home
      /\ conn[p].payload = home /\ conn[p].payload \in Payloads
      /\ HandleSign(Store, conn[p].payload)
  BY HeldTypes DEF SignPins, Persisting, OrderlyFile, PersistOf
<1>2. \A q \in Resolvers : Persisting(q) => q = p
  BY <1>1 DEF OrderlyFile
<1>3. Current(Store, reply.env)' /\ reply'.env.payload = home
  BY <1>0, <1>1, SignIsCurrent DEF HandleSign, SignReply
<1>4. conn' = [conn EXCEPT ![p] = Signed(reply'.env)] /\ Goto(p, "write", target[p])
  BY DEF SignPins
<1>5. /\ pc'[p] = "write" /\ target'[p] = target[p] /\ conn'[p].env = reply'.env
      /\ \A q \in Resolvers : q # p => pc'[q] = pc[q]
  <2>1. conn'[p] = Signed(reply'.env)
    BY <1>0, <1>4 DEF ProcType
  <2>2. pc' = [pc EXCEPT ![p] = "write"] /\ target' = [target EXCEPT ![p] = target[p]]
    BY <1>4 DEF Goto
  <2> QED BY <1>0, <2>1, <2>2 DEF ProcType, Signed
<1>6. \A q \in Resolvers : Persisting(q)' <=> q = p
  BY <1>2, <1>5 DEF Persisting
<1>7. PersistOf(p)'
  BY <1>1, <1>3, <1>5 DEF PersistOf, OrderlyFile, Current
<1>8. \A c \in Clients : FileTable'[c] = home'[c] \/ (Persisting(p)' /\ clientOf[p] = c)
  BY <1>1, <1>2, <1>6 DEF OrderlyFile, FileTable
<1>9. pinFile'.kind \in {"missing", "signed"}
  BY <1>1 DEF OrderlyFile
<1> QED BY <1>5, <1>6, <1>7, <1>8, <1>9 DEF OrderlyFile

LEMMA FileWrite ==
  ASSUME PinsInv, OrderlyFile, NEW p \in Resolvers, WritePins(p)
  PROVE  OrderlyFile'
<1>0. ProcType
  BY HeldTypes
<1>1. /\ pc[p] = "write" /\ Persisting(p) /\ pinFile' = conn[p] /\ home' = home
      /\ conn[p].kind = "signed" /\ conn[p].env.payload = home /\ Current(Store, conn[p].env)
      /\ UNCHANGED signerVars /\ pc' = [pc EXCEPT ![p] = "idle"]
  BY HeldTypes DEF WritePins, Persisting, OrderlyFile, PersistOf, Stop, Goto
<1>2. \A q \in Resolvers : Persisting(q) => q = p
  BY <1>1 DEF OrderlyFile
<1>3. \A q \in Resolvers : ~Persisting(q)'
  BY <1>0, <1>1, <1>2 DEF Persisting, ProcType
<1>4. FileTable' = home'
  BY <1>1 DEF FileTable
<1>5. Current(Store, pinFile.env)'
  BY <1>1 DEF Current, signerVars
<1> QED BY <1>1, <1>3, <1>4, <1>5 DEF OrderlyFile

(* The file has every pin but the one that is being persisted. *)
LEMMA FileStep ==
  ASSUME PinsInv, HomeInv, OrderlyFile, [Next]_vars, mishaps' = {}
  PROVE  OrderlyFile'
<1>0. ProcType /\ TabType
  BY HeldTypes
<1>1. ASSUME NEW p \in Resolvers, NEW label \in Steps, NEW h \in Handles \cup {NoTab},
             Goto(p, label, h), ~Persisting(p), label \notin {"read", "sign", "write"},
             \A q \in Resolvers : q # p => conn'[q] = conn[q],
             home' = home, pinFile' = pinFile, UNCHANGED signerVars
      PROVE  OrderlyFile'
  <2>1. pc'[p] = label /\ \A q \in Resolvers : q # p => pc'[q] = pc[q] /\ target'[q] = target[q]
    BY <1>0, <1>1, GotoType
  <2> QED BY <1>1, <2>1, FileKeeps DEF Persisting
<1>2. ASSUME NEW p \in Resolvers, Start(p) PROVE OrderlyFile'
  <2>1. PICK label \in {"list", "show"}, h \in Handles \cup {NoTab} : Goto(p, label, h)
    <3>1. pin[clientOf[p]] \in Handles \cup {NoTab}
      BY HeldTypes DEF PinType, PinTable
    <3> QED BY <1>2, <3>1 DEF Start
  <2> QED BY <1>1, <1>2, <2>1 DEF Start, Persisting, Steps
<1>3. ASSUME NEW p \in Resolvers, ShowMiss(p) PROVE OrderlyFile'
  <2>1. PICK label \in {"list", "showSuffix", "create"}, h \in Handles \cup {NoTab} : Goto(p, label, h)
    <3>1. target[p] \in Handles \cup {NoTab}
      BY <1>0 DEF ProcType
    <3> QED BY <1>3, <3>1 DEF ShowMiss
  <2> QED BY <1>1, <1>3, <2>1 DEF ShowMiss, Persisting, Steps
<1>4. ASSUME NEW p \in Resolvers, ListHit(p) \/ ListMiss(p) PROVE OrderlyFile'
  <2>1. PICK label \in {"showTitle", "create"}, h \in Handles \cup {NoTab} : Goto(p, label, h)
    BY <1>4 DEF ListHit, ListMiss
  <2> QED BY <1>1, <1>4, <2>1 DEF ListHit, ListMiss, Persisting, Steps
<1>5. ASSUME NEW p \in Resolvers, CreateFails(p) PROVE OrderlyFile'
  <2>1. Goto(p, "idle", NoTab) /\ conn' = [conn EXCEPT ![p] = None]
    BY <1>5 DEF CreateFails, Stop
  <2>2. \A q \in Resolvers : q # p => conn'[q] = conn[q]
    BY <1>0, <2>1 DEF ProcType
  <2> QED BY <1>1, <1>5, <2>1, <2>2 DEF CreateFails, Persisting, Steps
<1>6. ASSUME NEW p \in Resolvers, ShowHit(p) \/ Create(p) PROVE OrderlyFile'
  <2>1. PICK h \in Handles : Pin(p, h)
    BY <1>0, <1>6 DEF ShowHit, Create, TabType
  <2> QED BY <1>6, <2>1, FilePin DEF ShowHit, Create
<1>7. ASSUME NEW p \in Resolvers, MergeUnanswered(p) \/ PersistFails(p) PROVE OrderlyFile'
  BY <1>7 DEF MergeUnanswered, PersistFails
<1>8. ASSUME NEW p \in Resolvers,
             MergeVerified(p) \/ MergeEmpty(p) \/ SignPins(p) \/ WritePins(p)
      PROVE  OrderlyFile'
  BY <1>8, FileMerge, FileSign, FileWrite DEF HomeInv
<1>9. ASSUME \/ \E c \in Clients : Expire(c)
             \/ \E p \in Locked : Leave(p)
             \/ \E h \in Handles : CloseTab(h) \/ RewriteTitle(h)
             \/ UNCHANGED vars
      PROVE  OrderlyFile'
  <2>1. UNCHANGED <<home, pinFile, signerVars, pc, target, conn>>
    BY <1>9 DEF Expire, Leave, CloseTab, RewriteTitle, vars, procVars
  <2> QED BY <2>1, FileKeeps
<1>10. CASE BridgeCrash
  <2>1. \A q \in Resolvers : ~Persisting(q)
    BY <1>10 DEF BridgeCrash
  <2>2. /\ home' = home /\ pinFile' = pinFile /\ UNCHANGED signerVars
        /\ \A q \in Resolvers : pc'[q] = "idle"
    BY <1>10, <2>1 DEF BridgeCrash, Persisting
  <2> QED BY <2>1, <2>2, FileKeeps DEF Persisting
<1>11. CASE StartVerified \/ StartWithoutFile
  <2>1. /\ home' = home /\ pinFile' = pinFile /\ pc' = pc
        /\ pinFile.kind = "signed" => Current(Store, pinFile.env)'
    BY <1>11, LoadIsHome DEF HomeInv, StartVerified, StartWithoutFile, Load, procVars
  <2>2. \A q \in Resolvers : ~Persisting(q) /\ ~Persisting(q)'
    BY <1>11, <2>1 DEF HomeInv, PinIsHome, StartVerified, StartWithoutFile, Persisting
  <2>3. pinFile'.kind = "signed" => Current(Store, pinFile.env)'
    BY <2>1
  <2> QED BY <2>1, <2>2, <2>3 DEF OrderlyFile, FileTable
<1>12. CASE StartWithoutSigner
  BY <1>12 DEF StartWithoutSigner
<1> QED
  BY <1>2, <1>3, <1>4, <1>5, <1>6, <1>7, <1>8, <1>9, <1>10, <1>11, <1>12 DEF Next

-----------------------------------------------------------------------------
(* The search for a tab. *)

(* What a step of one resolver leaves of every client. *)
LEMMA UnshakenKeeps ==
  ASSUME NEW c \in Clients, NEW p \in Resolvers, UnshakenOf(c), up' = up,
         \A q \in Resolvers : q # p => pc'[q] = pc[q] /\ target'[q] = target[q],
         clientOf[p] # c => /\ pin'[c] = pin[c] /\ home'[c] = home[c]
                            /\ home[c] \notin live => home[c] \notin live',
         clientOf[p] = c => /\ \/ pc[p] # "idle"
                               \/ \A q \in Resolvers : clientOf[q] = c => pc[q] = "idle"
                            /\ SearchOf(p)'
                            /\ up /\ pin'[c] = NoTab => home'[c] \notin live'
  PROVE  UnshakenOf(c)'
<1>1. CASE clientOf[p] # c
  <2>1. \A q \in Resolvers : clientOf[q] = c => q # p
    BY <1>1
  <2>2. \A q \in Resolvers : clientOf[q] = c => SearchOf(q)'
    BY <1>1, <2>1 DEF UnshakenOf, SearchOf
  <2>3. \A q, r \in Resolvers : clientOf[q] = c /\ clientOf[r] = c /\ pc'[q] # "idle" /\ pc'[r] # "idle" => q = r
    BY <2>1 DEF UnshakenOf
  <2>4. up' /\ pin'[c] = NoTab => home'[c] \notin live'
    BY <1>1 DEF UnshakenOf
  <2> QED BY <2>2, <2>3, <2>4 DEF UnshakenOf
<1>2. CASE clientOf[p] = c
  <2>1. \A q \in Resolvers : clientOf[q] = c /\ q # p => pc[q] = "idle" /\ pc'[q] = "idle"
    BY <1>2 DEF UnshakenOf
  <2>2. \A q \in Resolvers : clientOf[q] = c => SearchOf(q)'
    BY <1>2, <2>1 DEF SearchOf
  <2>3. \A q, r \in Resolvers : clientOf[q] = c /\ clientOf[r] = c /\ pc'[q] # "idle" /\ pc'[r] # "idle" => q = r
    BY <2>1
  <2>4. up' /\ pin'[c] = NoTab => home'[c] \notin live'
    BY <1>2
  <2> QED BY <2>2, <2>3, <2>4 DEF UnshakenOf
<1> QED BY <1>1, <1>2

LEMMA UnshakenStep ==
  ASSUME PinsInv, HomeInv, OrderlyFile, MadeTabs, [Next]_vars, mishaps' = {},
         NEW c \in Clients, c \notin shaken', UnshakenOf(c)
  PROVE  UnshakenOf(c)'
<1>0. /\ PinType /\ ProcType /\ TabType /\ NoTab \notin Handles
      /\ home[c] \in Handles \cup {NoTab} /\ pin[c] \in Handles \cup {NoTab}
      /\ \A p \in Resolvers : clientOf[p] \in Clients /\ target[p] \in Handles \cup {NoTab}
  BY HeldTypes, PinsFacts DEF PinType, PinTable, ProcType
<1>1. ASSUME NEW p \in Resolvers, Start(p) PROVE UnshakenOf(c)'
  <2>1. /\ up' = up /\ up /\ pin' = pin /\ home' = home /\ live' = live
        /\ IF pin[clientOf[p]] = NoTab THEN Goto(p, "list", NoTab) ELSE Goto(p, "show", pin[clientOf[p]])
    BY <1>1 DEF Start, tabVars
  <2>2. clientOf[p] = c => \A q \in Resolvers : clientOf[q] = c => pc[q] = "idle"
    BY <1>1 DEF Start
  <2>3. pin[c] \in {NoTab, home[c]}
    BY <2>1 DEF HomeInv, PinIsHome
  <2>4. \/ pin[clientOf[p]] = NoTab /\ pc'[p] = "list"
        \/ pin[clientOf[p]] # NoTab /\ pc'[p] = "show" /\ target'[p] = pin[clientOf[p]]
    BY <1>0, <2>1 DEF Goto, ProcType
  <2>5. \A q \in Resolvers : q # p => pc'[q] = pc[q] /\ target'[q] = target[q]
    BY <1>0, <2>1 DEF Goto, ProcType
  <2>6. clientOf[p] = c => SearchOf(p)' /\ (up /\ pin'[c] = NoTab => home'[c] \notin live')
    BY <2>1, <2>3, <2>4 DEF SearchOf, UnshakenOf
  <2> QED BY <2>1, <2>2, <2>5, <2>6, UnshakenKeeps
<1>2. ASSUME NEW p \in Resolvers, ShowHit(p) PROVE UnshakenOf(c)'
  <2>1. target[p] \in Handles /\ Pin(p, target[p]) /\ up' = up /\ live' = live /\ pc[p] # "idle"
    BY <1>0, <1>2 DEF ShowHit, TabType, tabVars
  <2>2. /\ clientOf[p] # c => pin'[c] = pin[c] /\ home'[c] = home[c]
        /\ clientOf[p] = c => pin'[c] # NoTab
        /\ pc'[p] = "read"
        /\ \A q \in Resolvers : q # p => pc'[q] = pc[q] /\ target'[q] = target[q]
    BY <2>1, PinEffect
  <2>3. SearchOf(p)'
    BY <2>2 DEF SearchOf
  <2> QED BY <2>1, <2>2, <2>3, UnshakenKeeps
<1>3. ASSUME NEW p \in Resolvers, ShowMiss(p) PROVE UnshakenOf(c)'
  <2>1. /\ up' = up /\ live' = live /\ home' = home /\ pc[p] # "idle"
        /\ pin' \in {pin, [pin EXCEPT ![clientOf[p]] = NoTab]}
        /\ clientOf[p] = c => target[p] \notin live
    BY <1>3 DEF ShowMiss, tabVars
  <2>2. \E label, h : Goto(p, label, h) /\ label \in {"list", "showSuffix", "create"}
    BY <1>3 DEF ShowMiss
  <2>3. /\ \A q \in Resolvers : q # p => pc'[q] = pc[q] /\ target'[q] = target[q]
        /\ pc'[p] \in {"list", "showSuffix", "create"}
    BY <1>0, <2>2 DEF Goto, ProcType
  <2>4. clientOf[p] = c => home[c] \notin live
    BY <1>3, <2>1 DEF ShowMiss, UnshakenOf, SearchOf
  <2>5. clientOf[p] # c => pin'[c] = pin[c]
    BY <1>0, <2>1 DEF PinType, PinTable
  <2>6. clientOf[p] = c => SearchOf(p)'
    BY <2>1, <2>3, <2>4 DEF SearchOf
  <2> QED BY <2>1, <2>3, <2>4, <2>5, <2>6, UnshakenKeeps
<1>4. ASSUME NEW p \in Resolvers, ListHit(p) \/ ListMiss(p) PROVE UnshakenOf(c)'
  <2>1. /\ up' = up /\ live' = live /\ home' = home /\ pin' = pin /\ pc[p] = "list"
        /\ \E label, h : Goto(p, label, h) /\ label \in {"showTitle", "create"}
    BY <1>4 DEF ListHit, ListMiss, tabVars
  <2>2. /\ \A q \in Resolvers : q # p => pc'[q] = pc[q] /\ target'[q] = target[q]
        /\ pc'[p] \in {"showTitle", "create"}
    BY <1>0, <2>1 DEF Goto, ProcType
  <2>3. clientOf[p] = c => home[c] \notin live
    BY <2>1 DEF UnshakenOf, SearchOf
  <2>4. clientOf[p] = c => SearchOf(p)'
    BY <2>1, <2>2, <2>3 DEF SearchOf
  <2> QED BY <2>1, <2>2, <2>3, <2>4, UnshakenKeeps
<1>5. ASSUME NEW p \in Resolvers, Create(p) PROVE UnshakenOf(c)'
  <2>1. PICK h \in Handles : NewTab(clientOf[p], h) /\ Pin(p, h)
    BY <1>5 DEF Create
  <2>2. /\ clientOf[p] # c => pin'[c] = pin[c] /\ home'[c] = home[c]
        /\ clientOf[p] = c => pin'[c] # NoTab
        /\ pc'[p] = "read"
        /\ \A q \in Resolvers : q # p => pc'[q] = pc[q] /\ target'[q] = target[q]
    BY <2>1, PinEffect
  <2>3. SearchOf(p)'
    BY <2>2 DEF SearchOf
  <2>4. home[c] \notin live => home[c] \notin live'
    BY <1>0, <2>1, NewTabIsMade
  <2>5. up' = up /\ pc[p] # "idle"
    BY <1>5 DEF Create
  <2> QED BY <2>2, <2>3, <2>4, <2>5, UnshakenKeeps
<1>6. ASSUME NEW p \in Resolvers,
             \/ CreateFails(p) \/ MergeVerified(p) \/ MergeEmpty(p) \/ SignPins(p) \/ WritePins(p)
      PROVE  UnshakenOf(c)'
  <2>1. /\ up' = up /\ pin' = pin /\ home' = home /\ pc[p] # "idle"
        /\ live' = live \/ \E h \in Handles : NewTab(clientOf[p], h)
    BY <1>6 DEF CreateFails, MergeVerified, MergeEmpty, SignPins, WritePins, tabVars
  <2>2. \E label, h : Goto(p, label, h) /\ label \in {"idle", "sign", "write"}
    BY <1>6 DEF CreateFails, MergeVerified, MergeEmpty, SignPins, WritePins, Stop, SendMerged
  <2>3. /\ \A q \in Resolvers : q # p => pc'[q] = pc[q] /\ target'[q] = target[q]
        /\ pc'[p] \in {"idle", "sign", "write"}
    BY <1>0, <2>2 DEF Goto, ProcType
  <2>4. home[c] \notin live => home[c] \notin live'
    BY <1>0, <2>1, NewTabIsMade
  <2>5. SearchOf(p)'
    BY <2>3 DEF SearchOf
  <2>6. up /\ pin'[c] = NoTab => home'[c] \notin live'
    BY <2>1, <2>4 DEF UnshakenOf
  <2> QED BY <2>1, <2>3, <2>4, <2>5, <2>6, UnshakenKeeps
<1>7. ASSUME NEW p \in Resolvers, MergeUnanswered(p) \/ PersistFails(p) PROVE UnshakenOf(c)'
  BY <1>7 DEF MergeUnanswered, PersistFails
<1>8. ASSUME UNCHANGED <<up, pin, home, pc, target>>, home[c] \notin live => home[c] \notin live'
      PROVE  UnshakenOf(c)'
  BY <1>8 DEF UnshakenOf, SearchOf
<1>9. ASSUME NEW p \in Locked, Leave(p) PROVE UnshakenOf(c)'
  <2>1. p \in Resolvers /\ UNCHANGED <<up, pin, home, pc, target>>
    BY <1>9, PinsFacts DEF Leave
  <2>2. home[c] \notin live => home[c] \notin live'
    BY <1>0, <1>9, <2>1, NewTabIsMade DEF Leave, tabVars
  <2> QED BY <1>8, <2>1, <2>2
<1>10. ASSUME \/ \E d \in Clients : Expire(d)
              \/ \E h \in Handles : CloseTab(h) \/ RewriteTitle(h)
              \/ UNCHANGED vars
       PROVE  UnshakenOf(c)'
  BY <1>8, <1>10 DEF Expire, CloseTab, RewriteTitle, vars, procVars, tabVars
<1>11. CASE BridgeCrash
  BY <1>11 DEF BridgeCrash, UnshakenOf, SearchOf
<1>12. CASE StartVerified \/ StartWithoutFile
  <2>1. /\ pin' = home /\ home' = home /\ pc' = pc /\ live' = live
        /\ \A q \in Resolvers : pc[q] = "idle"
    BY <1>12, LoadIsHome DEF HomeInv, PinIsHome, StartVerified, StartWithoutFile, Load, procVars, tabVars
  <2>2. NoTab \notin live'
    BY <1>0, <2>1 DEF TabType
  <2> QED BY <2>1, <2>2 DEF UnshakenOf, SearchOf
<1>13. CASE StartWithoutSigner
  BY <1>13 DEF StartWithoutSigner
<1> QED
  BY <1>1, <1>2, <1>3, <1>4, <1>5, <1>6, <1>7, <1>9, <1>10, <1>11, <1>12, <1>13 DEF Next

(* The two invariants beside the inductive one. *)
LEMMA CalmStep ==
  ASSUME PinsInv, HomeInv, CalmInv, [Next]_vars
  PROVE  HomeInv' /\ CalmInv'
<1>1. HomeInv'
  BY BehindStep, HomeStep DEF HomeInv
<1>2. ASSUME mishaps' = {}
      PROVE  OrderlyFile' /\ MadeTabs' /\ \A c \in Clients \ shaken' : UnshakenOf(c)'
  <2>1. mishaps = {} /\ shaken \subseteq shaken'
    BY <1>2, HistoryStays
  <2>2. OrderlyFile /\ MadeTabs /\ \A c \in Clients \ shaken : UnshakenOf(c)
    BY <2>1 DEF CalmInv
  <2> QED BY <1>2, <2>1, <2>2, FileStep, MadeStep, UnshakenStep
<1>3. CalmInv'
  BY <1>2 DEF CalmInv
<1> QED BY <1>1, <1>3

LEMMA CalmInit == Init => HomeInv /\ CalmInv
<1> SUFFICES ASSUME Init PROVE HomeInv /\ CalmInv
  OBVIOUS
<1>1. HomeInv
  BY PinsFacts DEF Init, SignerInit, HomeInv, SeqFileIsBehind, NoRecord, PinIsHome, NoPins
<1>2. OrderlyFile
  BY DEF Init, OrderlyFile, Missing, FileTable, Persisting
<1>3. MadeTabs /\ \A c \in Clients : UnshakenOf(c)
  BY DEF Init, MadeTabs, NoPins, UnshakenOf, SearchOf
<1> QED BY <1>1, <1>2, <1>3 DEF CalmInv

(* A client that nothing has shaken gets a second coordinator tab only when the one
   it had is gone, through cache expiry, rewritten titles and restarts of the bridge
   (resolveSenderTerminal: "never create a sibling while the pin lives"). *)
THEOREM PinsNoSibling == Spec => NoSiblingWhilePinLives
<1>1. PinsInv /\ HomeInv /\ CalmInv /\ [Next]_vars => PinsInv' /\ HomeInv' /\ CalmInv'
  BY PinsStep, CalmStep
<1>2. PinsInv /\ HomeInv /\ CalmInv /\ [Next]_vars
      => [\A c \in Clients \ shaken : mishaps = {} => ~Sibling(c)]_vars
  <2> SUFFICES ASSUME PinsInv, CalmInv, [Next]_vars, NEW c \in Clients, c \notin shaken, mishaps = {},
                      NEW h \in Handles, maker[h] = NoClient, maker'[h] = c, home[c] \in live
               PROVE  FALSE
    BY DEF Sibling
  <2>1. c # NoClient /\ TabType /\ UnshakenOf(c)
    BY HeldTypes, PinsFacts DEF CalmInv
  <2>2. ASSUME NEW p \in Resolvers, pc[p] = "create", NEW g \in Handles, NewTab(clientOf[p], g)
        PROVE  FALSE
    <3>1. maker'[g] = clientOf[p] /\ \A k \in Handles : k # g => maker'[k] = maker[k]
      BY <2>1, <2>2, NewTabType, HeldTypes
    <3>2. clientOf[p] = c
      BY <2>1, <3>1
    <3> QED BY <2>1, <2>2, <3>2 DEF UnshakenOf, SearchOf
  <2>3. \/ maker' = maker
        \/ \E p \in Resolvers : pc[p] = "create" /\ \E g \in Handles : NewTab(clientOf[p], g)
    <3>1. ASSUME NEW p \in Resolvers, Create(p) \/ CreateFails(p) \/ Leave(p)
          PROVE  \/ maker' = maker
                 \/ pc[p] = "create" /\ \E g \in Handles : NewTab(clientOf[p], g)
      BY <3>1 DEF Create, CreateFails, Leave, tabVars
    <3> QED
      BY <3>1, PinsFacts
      DEF Next, vars, tabVars, Start, ShowHit, ShowMiss, ListHit, ListMiss, MergeVerified,
          MergeUnanswered, MergeEmpty, SignPins, WritePins, PersistFails, Expire, CloseTab,
          RewriteTitle, BridgeCrash, StartVerified, StartWithoutFile, StartWithoutSigner, Load
  <2> QED BY <2>1, <2>2, <2>3
<1> QED BY <1>1, <1>2, PinsInit, CalmInit, PTL DEF Spec, NoSiblingWhilePinLives

(* Where persists neither overlap nor are cut short, a restarted bridge works with
   the very pins it had: persistSenderPin's merge forgets nobody's and the signer
   finds the file fresh (persistSenderPin, loadPersistedPins). *)
THEOREM PinsReused == Spec => RestartReusesPin
<1>1. PinsInv /\ HomeInv /\ CalmInv /\ [Next]_vars => PinsInv' /\ HomeInv' /\ CalmInv'
  BY PinsStep, CalmStep
<1>2. PinsInv /\ HomeInv /\ CalmInv /\ [Next]_vars
      => [~up /\ up' /\ mishaps' = {} => \A c \in written : pin'[c] = home[c]]_vars
  <2> SUFFICES ASSUME PinsInv, HomeInv, CalmInv, [Next]_vars, ~up, up', mishaps' = {}
               PROVE  pin' = home
    BY DEF HomeInv
  <2>1. mishaps = {}
    BY HistoryStays
  <2>2. OrderlyFile
    BY <2>1 DEF CalmInv
  <2>3. CASE StartVerified \/ StartWithoutFile
    BY <2>2, <2>3, LoadIsHome DEF HomeInv
  <2>4. CASE StartWithoutSigner
    BY <2>4 DEF StartWithoutSigner
  <2> QED
    BY <2>3, <2>4
    DEF Next, vars, Start, ShowHit, ShowMiss, ListHit, ListMiss, Create, CreateFails,
        MergeVerified, MergeUnanswered, MergeEmpty, SignPins, WritePins, PersistFails,
        Expire, Leave, CloseTab, RewriteTitle, BridgeCrash
<1> QED BY <1>1, <1>2, PinsInit, CalmInit, PTL DEF Spec, RestartReusesPin

-----------------------------------------------------------------------------
(* The resolvers use the daemon as the daemon is specified. *)

(* The envelopes that are held or in the file have numbers the daemon gave. *)
Numbered ==
  /\ \A p \in Resolvers : conn[p].kind = "signed" => conn[p].env.n \in 1..MaxSeq
  /\ pinFile.kind = "signed" => pinFile.env.n \in 1..MaxSeq

LEMMA NumberedStep ==
  ASSUME PinsInv, Numbered, [Next]_vars PROVE Numbered'
<1>0. SignerTypeOK /\ ProcType /\ ConnInv /\ pinFile \in Stored
  BY TypeParts DEF PinsInv, RestType
<1> USE PinsFacts DEF ProcType, ConnInv, Numbered
<1>1. ASSUME NEW p \in Resolvers, SignPins(p) PROVE Numbered'
  <2>1. conn' = [conn EXCEPT ![p] = Signed(reply'.env)] /\ pinFile' = pinFile
    BY <1>1 DEF SignPins
  <2>2. reply'.env.n \in 1..MaxSeq
    BY <1>0, <1>1, SignIsNumbered DEF SignPins
  <2> QED
    BY <1>0, <2>1, <2>2 DEF Signed
<1>2. ASSUME NEW p \in Resolvers, Stop(p), pinFile' \in {pinFile, Malformed} PROVE Numbered'
  BY <1>0, <1>2 DEF Stop, None, Malformed
<1>3. ASSUME NEW p \in Resolvers, WritePins(p) PROVE Numbered'
  BY <1>0, <1>3 DEF WritePins, Stop, None
<1>4. ASSUME NEW p \in Resolvers, NEW h, Pin(p, h), pinFile' = pinFile PROVE Numbered'
  BY <1>0, <1>4 DEF Pin
<1>5. ASSUME NEW p \in Resolvers, NEW t, SendMerged(p, t), pinFile' = pinFile PROVE Numbered'
  BY <1>0, <1>5 DEF SendMerged, Request
<1>6. CASE BridgeCrash
  BY <1>0, <1>6 DEF BridgeCrash, None, Malformed
<1>7. CASE UNCHANGED <<conn, pinFile>>
  BY <1>7
<1>8. ASSUME NEW p \in Resolvers, ShowHit(p) PROVE Numbered'
  BY <1>8, <1>2, <1>4, <1>7 DEF ShowHit
<1>9. ASSUME NEW p \in Resolvers, Start(p) \/ ShowMiss(p) \/ ListHit(p) \/ ListMiss(p) PROVE Numbered'
  BY <1>9, <1>2, <1>4, <1>7 DEF Start, ShowMiss, ListHit, ListMiss
<1>10. ASSUME NEW p \in Resolvers, Create(p) \/ CreateFails(p) \/ PersistFails(p) PROVE Numbered'
  BY <1>10, <1>2, <1>4, <1>7 DEF Create, CreateFails, PersistFails
<1>11. ASSUME NEW p \in Resolvers, MergeVerified(p) \/ MergeUnanswered(p) \/ MergeEmpty(p) PROVE Numbered'
  BY <1>11, <1>5 DEF MergeVerified, MergeUnanswered, MergeEmpty
<1> QED
  BY <1>1, <1>3, <1>6, <1>7, <1>8, <1>9, <1>10, <1>11
  DEF Next, vars, procVars, Expire, Leave, CloseTab, RewriteTitle, Load, StartVerified, StartWithoutFile,
      StartWithoutSigner

(* The bridge and its daemon together implement the daemon. *)
THEOREM PinsUseSigner == Spec => SignerSpec
<1>1. Init => SignerInit /\ Numbered
  BY DEF Init, Numbered, Missing, None
<1>2. PinsInv /\ Numbered /\ [Next]_vars => Numbered'
  BY NumberedStep
<1>3. PinsInv /\ Numbered /\ [Next]_vars => [SignerNext]_signerVars
  <2> SUFFICES ASSUME PinsInv, Numbered, [Next]_vars PROVE [SignerNext]_signerVars
    OBVIOUS
  <2>0. ProcType /\ ConnInv /\ pinFile \in Stored
    BY TypeParts DEF PinsInv, RestType
  <2>1. ASSUME NEW p \in Resolvers, SignPins(p) PROVE SignerNext
    BY <2>0, <2>1, PinsFacts DEF SignPins, SignerNext, ConnInv
  <2>2. ASSUME NEW e \in Envelope, e.n \in 1..MaxSeq, HandleVerify(Store, e) PROVE SignerNext
    <3>1. e.payload \in Payloads /\ e = [n |-> e.n, payload |-> e.payload]
      BY DEF Envelope
    <3> QED
      BY <2>2, <3>1, PinsFacts DEF SignerNext
  <2>3. ASSUME NEW p \in Resolvers, MergeVerified(p) PROVE SignerNext
    BY <2>0, <2>2, <2>3 DEF MergeVerified, ConnInv, Stored, Missing, Malformed, Numbered
  <2>4. CASE StartVerified
    BY <2>0, <2>2, <2>4 DEF StartVerified, Stored, Missing, Malformed, Numbered
  <2> QED
    BY <2>1, <2>3, <2>4
    DEF Next, vars, Start, ShowHit, ShowMiss, ListHit, ListMiss, Create, CreateFails, MergeUnanswered,
        MergeEmpty, WritePins, PersistFails, Expire, Leave, CloseTab, RewriteTitle, BridgeCrash,
        StartWithoutFile, StartWithoutSigner
<1> QED
  BY <1>1, <1>2, <1>3, PinsInvariant, PTL DEF Spec, SignerSpec

(* The daemon is asked for the pin file only, so its record is the file's own. *)
LEMMA PinRecordIsOwn == Spec => []OwnRecord(Store)
<1>1. Init => Alone(Store)
  BY PinsFacts DEF Init, SignerInit, Alone, Own
<1>2. PinsInv /\ Alone(Store) /\ [Next]_vars => Alone(Store)'
  <2> SUFFICES ASSUME PinsInv, Alone(Store), [Next]_vars PROVE Alone(Store)'
    OBVIOUS
  <2>0. ProcType /\ ConnInv /\ pinFile \in Stored
    BY TypeParts DEF PinsInv, RestType
  <2>1. ASSUME NEW p \in Resolvers, SignPins(p) PROVE UsedOnlyFor(Store)
    BY <2>0, <2>1, PinsFacts DEF SignPins, UsedOnlyFor, ConnInv
  <2>2. ASSUME NEW p \in Resolvers, MergeVerified(p) PROVE UsedOnlyFor(Store)
    BY <2>0, <2>2 DEF MergeVerified, UsedOnlyFor, ConnInv, Stored, Missing, Malformed
  <2>3. ASSUME StartVerified PROVE UsedOnlyFor(Store)
    <3>1. pinFile.env \in Envelope /\ HandleVerify(Store, pinFile.env)
      BY <2>3, HeldTypes DEF StartVerified
    <3> QED
      BY <3>1 DEF UsedOnlyFor
  <2>4. [UsedOnlyFor(Store)]_signerVars
    BY <2>1, <2>2, <2>3
    DEF Next, vars, Start, ShowHit, ShowMiss, ListHit, ListMiss, Create, CreateFails,
        MergeUnanswered, MergeEmpty, WritePins, PersistFails, Expire, Leave, CloseTab, RewriteTitle,
        BridgeCrash, StartWithoutFile, StartWithoutSigner
  <2> QED
    BY <2>4, AloneStep, HeldTypes, PinsFacts
<1>3. Alone(Store) => OwnRecord(Store)
  BY DEF Alone, Own, OwnRecord
<1> QED
  BY <1>1, <1>2, <1>3, PinsInvariant, PTL DEF Spec

(* The pin file is verified exactly as the daemon promises, and no other record ever
   stands in its way. *)
THEOREM PinsAreFresh ==
  Spec => [](FreshIffNewest /\ HighestIsAccepted /\ NumbersAreUnique /\ OwnRecord(Store))
BY PinsUseSigner, PinRecordIsOwn, SignerIsFresh, SignerRecovers, SignerNumbersUnique, PTL
=============================================================================
