------------------------ MODULE LiveInspectionProofs ------------------------
(***************************************************************************)
(* Theorems about LiveInspection and the canaries of AdpCanary it extends, *)
(* for any number of changes of the page.                                  *)
(*                                                                         *)
(* ManifestNeedsCleanEntry speaks of the end of an inspection only.  LInv  *)
(* says where the fence stands and what it has denied at every stage       *)
(* before: it is up from before the entry is followed until its outcome is *)
(* decided, and a denial noted by then is in the outcome.                  *)
(*                                                                         *)
(* The counters of a canary cover the page's effects because each step of  *)
(* a plan acts once, on something no other step acts on, and a control     *)
(* acted on is one the run has passed: CountsInv.  Its verdict follows the *)
(* last look because between a look and the end of its plan the run keeps  *)
(* what it saw: SightsInv.                                                 *)
(*                                                                         *)
(* The three action properties of the canaries say what was checked before *)
(* a click or a write.  A plan checks it at its steps (PlansCheck), and    *)
(* the run still has what it checked: which targets were read back, when   *)
(* the buttons were seen, and when the form was, of which ChecksInv says   *)
(* how much the run has done since.                                        *)
(*                                                                         *)
(* All of this rests on what the plans are, which is shown of their pieces *)
(* and of two pieces put together.                                         *)
(***************************************************************************)
EXTENDS LiveInspection, FiniteSetTheorems, SequenceTheorems, TLAPS
-----------------------------------------------------------------------------
(* The plans.  A plan that writes is put together from pieces, so what is   *)
(* needed of a plan is shown of its pieces, each a tuple, and of two pieces *)
(* put together.                                                            *)

Listed(s) == s \in Seq({s[i] : i \in DOMAIN s})

Acts(s, i) == s[i].do \in {"click", "fill"}

(* What a step acts on, no other step does. *)
ActsOnceOn(s, names) ==
    /\ \A i \in DOMAIN s : Acts(s, i) => s[i].on \in names
    /\ \A i, j \in DOMAIN s : Acts(s, i) /\ Acts(s, j) /\ s[i].on = s[j].on => i = j

(* A banner step may skip two steps, which look at nothing of interest. *)
BannersSkip(s) ==
    \A i \in DOMAIN s : s[i].do = "banner" =>
        /\ i + 3 \in DOMAIN s
        /\ \A m \in {i + 1, i + 2} : /\ s[m].do \in {"click", "glance"} /\ "actions" \notin s[m].gates
                                     /\ Acts(s, m) => s[m].on = "deny"

ClicksNamed(s) == \A i \in DOMAIN s : s[i].do = "click" => s[i].on \in Clicks \ {"entry"}

Piece(s, names) ==
    /\ Listed(s) /\ DOMAIN s = 1..Len(s) /\ Len(s) \in Nat \ {0}
    /\ \A i \in DOMAIN s : s[i].do = "end" => i = Len(s)
    /\ ActsOnceOn(s, names) /\ BannersSkip(s) /\ ClicksNamed(s)

LastDo(s) == s[Len(s)].do

LEMMA Listing ==
    ASSUME NEW n \in Nat, NEW s, s \in [1..n -> {s[i] : i \in 1..n}]
    PROVE  Listed(s) /\ Len(s) = n /\ DOMAIN s = 1..n
  <1>1. s \in Seq({s[i] : i \in 1..n})
    BY SeqDef
  <1>2. QED
    BY <1>1 DEF Listed

LEMMA Concatenation ==
    ASSUME NEW s, NEW t, Listed(s), Listed(t)
    PROVE  /\ Listed(s \o t) /\ Len(s \o t) = Len(s) + Len(t)
           /\ Len(s) \in Nat /\ Len(t) \in Nat
           /\ DOMAIN (s \o t) = 1..(Len(s) + Len(t))
           /\ DOMAIN s = 1..Len(s) /\ DOMAIN t = 1..Len(t)
           /\ \A i \in DOMAIN s : (s \o t)[i] = s[i] /\ i \in DOMAIN (s \o t)
           /\ \A i \in DOMAIN t : (s \o t)[Len(s) + i] = t[i] /\ Len(s) + i \in DOMAIN (s \o t)
           /\ \A i \in DOMAIN (s \o t) :
                 i \in DOMAIN s \/ (i - Len(s) \in DOMAIN t /\ (s \o t)[i] = t[i - Len(s)])
  <1> DEFINE S == {s[i] : i \in DOMAIN s} \cup {t[i] : i \in DOMAIN t}
             u == s \o t
  <1>1. s \in Seq(S) /\ t \in Seq(S)
    BY DEF Listed
  <1> HIDE DEF S
  <1>2. /\ u \in Seq(S) /\ Len(u) = Len(s) + Len(t) /\ Len(s) \in Nat /\ Len(t) \in Nat
        /\ DOMAIN u = 1..(Len(s) + Len(t)) /\ DOMAIN s = 1..Len(s) /\ DOMAIN t = 1..Len(t)
        /\ \A i \in DOMAIN s : u[i] = s[i] /\ i \in DOMAIN u
        /\ \A i \in DOMAIN t : u[Len(s) + i] = t[i] /\ Len(s) + i \in DOMAIN u
        /\ \A i \in DOMAIN u : i \in DOMAIN s \/ (i - Len(s) \in DOMAIN t /\ u[i] = t[i - Len(s)])
    BY <1>1
  <1> HIDE DEF u
  <1>3. u \in [1..Len(u) -> {u[i] : i \in 1..Len(u)}]
    BY <1>2
  <1>4. Listed(u)
    BY <1>2, <1>3, Listing
  <1>5. QED
    BY <1>2, <1>4 DEF u

(* Two pieces that act on different things make a piece. *)
LEMMA Joining ==
    ASSUME NEW s, NEW t, NEW a, NEW b, Piece(s, a), Piece(t, b), a \cap b = {}, LastDo(s) # "end"
    PROVE  Piece(s \o t, a \cup b) /\ LastDo(s \o t) = LastDo(t)
  <1> DEFINE u == s \o t
  <1>1. Listed(s) /\ Listed(t) /\ Len(s) \in Nat \ {0} /\ Len(t) \in Nat \ {0}
    BY DEF Piece
  <1>2. /\ Listed(u) /\ Len(u) = Len(s) + Len(t)
        /\ DOMAIN u = 1..(Len(s) + Len(t)) /\ DOMAIN s = 1..Len(s) /\ DOMAIN t = 1..Len(t)
        /\ \A i \in DOMAIN s : u[i] = s[i] /\ i \in DOMAIN u
        /\ \A i \in DOMAIN t : u[Len(s) + i] = t[i] /\ Len(s) + i \in DOMAIN u
        /\ \A i \in DOMAIN u : i \in DOMAIN s \/ (i - Len(s) \in DOMAIN t /\ u[i] = t[i - Len(s)])
    BY <1>1, Concatenation
  <1> HIDE DEF u
  <1>3. BannersSkip(u)
    <2>1. SUFFICES ASSUME NEW i \in DOMAIN u, u[i].do = "banner"
                   PROVE  /\ i + 3 \in DOMAIN u
                          /\ \A m \in {i + 1, i + 2} : /\ u[m].do \in {"click", "glance"}
                                                       /\ "actions" \notin u[m].gates
                                                       /\ Acts(u, m) => u[m].on = "deny"
      BY DEF BannersSkip
    <2>2. CASE i \in DOMAIN s
      <3>1. i + 3 \in DOMAIN s /\ i + 1 \in DOMAIN s /\ i + 2 \in DOMAIN s
        BY <1>1, <1>2, <2>1, <2>2 DEF Piece, BannersSkip
      <3>2. QED
        BY <1>2, <2>1, <2>2, <3>1 DEF Piece, BannersSkip, Acts
    <2>3. CASE i \notin DOMAIN s
      <3> DEFINE j == i - Len(s)
      <3>1. j \in DOMAIN t /\ t[j].do = "banner" /\ i = Len(s) + j
        BY <1>1, <1>2, <2>1, <2>3
      <3>2. j + 3 \in DOMAIN t /\ j + 1 \in DOMAIN t /\ j + 2 \in DOMAIN t
        BY <1>1, <1>2, <3>1 DEF Piece, BannersSkip
      <3>3. \A m \in {j + 1, j + 2} : /\ t[m].do \in {"click", "glance"} /\ "actions" \notin t[m].gates
                                      /\ Acts(t, m) => t[m].on = "deny"
        BY <3>1 DEF Piece, BannersSkip
      <3>4. u[i + 1] = t[j + 1] /\ u[i + 2] = t[j + 2] /\ i + 3 \in DOMAIN u
        <4>1. Len(s) + (j + 1) = i + 1 /\ Len(s) + (j + 2) = i + 2 /\ Len(s) + (j + 3) = i + 3
          BY <1>1, <1>2, <3>1
        <4>2. /\ u[Len(s) + (j + 1)] = t[j + 1] /\ u[Len(s) + (j + 2)] = t[j + 2]
              /\ Len(s) + (j + 3) \in DOMAIN u
          BY <1>2, <3>2
        <4>3. QED
          BY <4>1, <4>2
      <3>5. QED
        BY <3>3, <3>4 DEF Acts
    <2>4. QED
      BY <2>2, <2>3
  <1>4. ActsOnceOn(u, a \cup b)
    <2>1. ASSUME NEW i \in DOMAIN u, Acts(u, i)
          PROVE  \/ i \in DOMAIN s /\ u[i] = s[i] /\ s[i].on \in a
                 \/ i - Len(s) \in DOMAIN t /\ u[i] = t[i - Len(s)] /\ t[i - Len(s)].on \in b
      BY <1>2, <2>1 DEF Piece, ActsOnceOn, Acts
    <2>2. \A i \in DOMAIN u : Acts(u, i) => u[i].on \in a \cup b
      BY <2>1
    <2>3. ASSUME NEW i \in DOMAIN u, NEW j \in DOMAIN u, Acts(u, i), Acts(u, j), u[i].on = u[j].on
          PROVE  i = j
      <3>1. CASE u[i].on \in a
        <4>1. i \in DOMAIN s /\ j \in DOMAIN s /\ u[i] = s[i] /\ u[j] = s[j]
          BY <2>1, <2>3, <3>1
        <4>2. QED
          BY <2>3, <4>1 DEF Piece, ActsOnceOn, Acts
      <3>2. CASE u[i].on \notin a
        <4>1. /\ i - Len(s) \in DOMAIN t /\ j - Len(s) \in DOMAIN t
              /\ u[i] = t[i - Len(s)] /\ u[j] = t[j - Len(s)]
          BY <2>1, <2>3, <3>2
        <4>2. i - Len(s) = j - Len(s)
          BY <2>3, <4>1 DEF Piece, ActsOnceOn, Acts
        <4>3. i \in Nat /\ j \in Nat /\ Len(s) \in Nat
          BY <1>1, <1>2
        <4>4. QED
          BY <4>2, <4>3
      <3>3. QED
        BY <3>1, <3>2
    <2>4. QED
      BY <2>2, <2>3 DEF ActsOnceOn
  <1>5. \A i \in DOMAIN u : u[i].do = "end" => i = Len(u)
    <2>1. ASSUME NEW i \in DOMAIN u, u[i].do = "end" PROVE i = Len(u)
      <3>1. CASE i \in DOMAIN s
        BY <1>2, <2>1, <3>1 DEF Piece, LastDo
      <3>2. CASE i \notin DOMAIN s
        <4>1. i - Len(s) \in DOMAIN t /\ t[i - Len(s)].do = "end"
          BY <1>2, <2>1, <3>2
        <4>2. i - Len(s) = Len(t)
          BY <4>1 DEF Piece
        <4>3. QED
          BY <1>1, <1>2, <4>2
      <3>3. QED
        BY <3>1, <3>2
    <2>2. QED
      BY <2>1
  <1>6. ClicksNamed(u)
    BY <1>2 DEF Piece, ClicksNamed
  <1>7. LastDo(u) = LastDo(t)
    BY <1>1, <1>2 DEF LastDo
  <1>8. QED
    BY <1>1, <1>2, <1>3, <1>4, <1>5, <1>6, <1>7 DEF Piece, u

(* The pieces. *)
LEMMA WritePiece ==
    ASSUME NEW field, NEW guards
    PROVE  Piece(Write(field, guards), {field}) /\ LastDo(Write(field, guards)) = "readback"
  <1> DEFINE w == Write(field, guards)
  <1>1. w \in [1..2 -> {w[i] : i \in 1..2}]
    BY DEF Write
  <1>2. Listed(w) /\ Len(w) = 2 /\ DOMAIN w = 1..2
    BY <1>1, Listing
  <1>3. w[1].do = "fill" /\ w[2].do = "readback" /\ w[1].on = field
    BY DEF Write, Step
  <1> HIDE DEF w
  <1>4. \A i \in DOMAIN w : i = 1 \/ i = 2
    BY <1>2
  <1>5. ActsOnceOn(w, {field}) /\ BannersSkip(w) /\ ClicksNamed(w)
    BY <1>3, <1>4 DEF ActsOnceOn, BannersSkip, ClicksNamed, Acts
  <1>6. Piece(w, {field}) /\ LastDo(w) = "readback"
    BY <1>2, <1>3, <1>4, <1>5 DEF Piece, LastDo
  <1>7. QED
    BY <1>6 DEF w

LEMMA IdentityPiece ==
    ASSUME NEW guards
    PROVE  /\ Piece(IdentityWrites(guards), {"first_name", "last_name", "email"})
           /\ LastDo(IdentityWrites(guards)) = "readback"
  <1> DEFINE first == Write("first_name", guards)
             last  == Write("last_name", guards)
             email == Write("email", guards)
  <1>1. /\ Piece(first, {"first_name"}) /\ LastDo(first) = "readback"
        /\ Piece(last, {"last_name"}) /\ LastDo(last) = "readback"
        /\ Piece(email, {"email"}) /\ LastDo(email) = "readback"
    BY WritePiece
  <1> HIDE DEF first, last, email
  <1>2. /\ Piece(first \o last, {"first_name"} \cup {"last_name"})
        /\ LastDo(first \o last) = "readback"
    BY <1>1, Joining
  <1>3. /\ Piece((first \o last) \o email, ({"first_name"} \cup {"last_name"}) \cup {"email"})
        /\ LastDo((first \o last) \o email) = "readback"
    BY <1>1, <1>2, Joining
  <1>4. ({"first_name"} \cup {"last_name"}) \cup {"email"} = {"first_name", "last_name", "email"}
    OBVIOUS
  <1>5. QED
    BY <1>3, <1>4 DEF IdentityWrites, first, last, email

LEMMA PhonePiece ==
    ASSUME NEW guards
    PROVE  /\ Piece(PhoneWrites(guards), {"phone_country", "phone_number"})
           /\ LastDo(PhoneWrites(guards)) = "readback"
  <1> DEFINE country == Write("phone_country", guards)
             number  == Write("phone_number", guards)
  <1>1. /\ Piece(country, {"phone_country"}) /\ LastDo(country) = "readback"
        /\ Piece(number, {"phone_number"}) /\ LastDo(number) = "readback"
    BY WritePiece
  <1> HIDE DEF country, number
  <1>2. /\ Piece(country \o number, {"phone_country"} \cup {"phone_number"})
        /\ LastDo(country \o number) = "readback"
    BY <1>1, Joining
  <1>3. {"phone_country"} \cup {"phone_number"} = {"phone_country", "phone_number"}
    OBVIOUS
  <1>4. QED
    BY <1>2, <1>3 DEF PhoneWrites, country, number

LEMMA NavigationPlanPiece == Piece(NavigationPlan, {"apply"}) /\ LastDo(NavigationPlan) = "end"
  <1>1. NavigationPlan \in [1..4 -> {NavigationPlan[i] : i \in 1..4}]
    BY DEF NavigationPlan
  <1>2. Listed(NavigationPlan) /\ Len(NavigationPlan) = 4 /\ DOMAIN NavigationPlan = 1..4
    BY <1>1, Listing
  <1>3. ActsOnceOn(NavigationPlan, {"apply"}) /\ BannersSkip(NavigationPlan) /\ ClicksNamed(NavigationPlan)
    BY DEF NavigationPlan, Look, Click, Survey, End, Step, ActsOnceOn, BannersSkip, ClicksNamed, Acts, Clicks
  <1>4. /\ \A i \in DOMAIN NavigationPlan : NavigationPlan[i].do = "end" => i = 4
        /\ NavigationPlan[4].do = "end"
    BY DEF NavigationPlan, Look, Click, Survey, End, Step
  <1>5. QED
    BY <1>2, <1>3, <1>4 DEF Piece, LastDo

LEMMA CookiePreferencesPlanPiece == Piece(CookiePreferencesPlan, {"preferences"}) /\ LastDo(CookiePreferencesPlan) = "end"
  <1>1. CookiePreferencesPlan \in [1..4 -> {CookiePreferencesPlan[i] : i \in 1..4}]
    BY DEF CookiePreferencesPlan
  <1>2. Listed(CookiePreferencesPlan) /\ Len(CookiePreferencesPlan) = 4 /\ DOMAIN CookiePreferencesPlan = 1..4
    BY <1>1, Listing
  <1>3. ActsOnceOn(CookiePreferencesPlan, {"preferences"}) /\ BannersSkip(CookiePreferencesPlan) /\ ClicksNamed(CookiePreferencesPlan)
    BY DEF CookiePreferencesPlan, Look, Click, Glance, End, Step, ActsOnceOn, BannersSkip, ClicksNamed, Acts, Clicks
  <1>4. /\ \A i \in DOMAIN CookiePreferencesPlan : CookiePreferencesPlan[i].do = "end" => i = 4
        /\ CookiePreferencesPlan[4].do = "end"
    BY DEF CookiePreferencesPlan, Look, Click, Glance, End, Step
  <1>5. QED
    BY <1>2, <1>3, <1>4 DEF Piece, LastDo

LEMMA PreferenceSafeFillEntrancePiece == Piece(PreferenceSafeFillEntrance, {"preferences", "unselect", "save", "apply"}) /\ LastDo(PreferenceSafeFillEntrance) = "glance"
  <1>1. PreferenceSafeFillEntrance \in [1..10 -> {PreferenceSafeFillEntrance[i] : i \in 1..10}]
    BY DEF PreferenceSafeFillEntrance
  <1>2. Listed(PreferenceSafeFillEntrance) /\ Len(PreferenceSafeFillEntrance) = 10 /\ DOMAIN PreferenceSafeFillEntrance = 1..10
    BY <1>1, Listing
  <1>3. ActsOnceOn(PreferenceSafeFillEntrance, {"preferences", "unselect", "save", "apply"}) /\ BannersSkip(PreferenceSafeFillEntrance) /\ ClicksNamed(PreferenceSafeFillEntrance)
    BY DEF PreferenceSafeFillEntrance, Look, Click, Glance, Step, ActsOnceOn, BannersSkip, ClicksNamed, Acts, Clicks
  <1>4. /\ \A i \in DOMAIN PreferenceSafeFillEntrance : PreferenceSafeFillEntrance[i].do = "end" => i = 10
        /\ PreferenceSafeFillEntrance[10].do = "glance"
    BY DEF PreferenceSafeFillEntrance, Look, Click, Glance, Step
  <1>5. QED
    BY <1>2, <1>3, <1>4 DEF Piece, LastDo

LEMMA PhoneContractPlanPiece == Piece(PhoneContractPlan, {"preferences", "unselect", "save", "apply"}) /\ LastDo(PhoneContractPlan) = "end"
  <1>1. PhoneContractPlan \in [1..12 -> {PhoneContractPlan[i] : i \in 1..12}]
    BY DEF PhoneContractPlan
  <1>2. Listed(PhoneContractPlan) /\ Len(PhoneContractPlan) = 12 /\ DOMAIN PhoneContractPlan = 1..12
    BY <1>1, Listing
  <1>3. ActsOnceOn(PhoneContractPlan, {"preferences", "unselect", "save", "apply"}) /\ BannersSkip(PhoneContractPlan) /\ ClicksNamed(PhoneContractPlan)
    BY DEF PhoneContractPlan, Look, Click, Glance, End, Step, ActsOnceOn, BannersSkip, ClicksNamed, Acts, Clicks
  <1>4. /\ \A i \in DOMAIN PhoneContractPlan : PhoneContractPlan[i].do = "end" => i = 12
        /\ PhoneContractPlan[12].do = "end"
    BY DEF PhoneContractPlan, Look, Click, Glance, End, Step
  <1>5. QED
    BY <1>2, <1>3, <1>4 DEF Piece, LastDo

LEMMA ContinueEntrancePiece == Piece(ContinueEntrance, {"preferences", "unselect", "save", "apply"}) /\ LastDo(ContinueEntrance) = "glance"
  <1>1. ContinueEntrance \in [1..9 -> {ContinueEntrance[i] : i \in 1..9}]
    BY DEF ContinueEntrance
  <1>2. Listed(ContinueEntrance) /\ Len(ContinueEntrance) = 9 /\ DOMAIN ContinueEntrance = 1..9
    BY <1>1, Listing
  <1>3. ActsOnceOn(ContinueEntrance, {"preferences", "unselect", "save", "apply"}) /\ BannersSkip(ContinueEntrance) /\ ClicksNamed(ContinueEntrance)
    BY DEF ContinueEntrance, Look, Click, Glance, Step, ActsOnceOn, BannersSkip, ClicksNamed, Acts, Clicks
  <1>4. /\ \A i \in DOMAIN ContinueEntrance : ContinueEntrance[i].do = "end" => i = 9
        /\ ContinueEntrance[9].do = "glance"
    BY DEF ContinueEntrance, Look, Click, Glance, Step
  <1>5. QED
    BY <1>2, <1>3, <1>4 DEF Piece, LastDo

LEMMA DiagnosticEntrancePiece == Piece(DiagnosticEntrance, {"preferences", "unselect", "save", "apply"}) /\ LastDo(DiagnosticEntrance) = "glance"
  <1>1. DiagnosticEntrance \in [1..9 -> {DiagnosticEntrance[i] : i \in 1..9}]
    BY DEF DiagnosticEntrance
  <1>2. Listed(DiagnosticEntrance) /\ Len(DiagnosticEntrance) = 9 /\ DOMAIN DiagnosticEntrance = 1..9
    BY <1>1, Listing
  <1>3. ActsOnceOn(DiagnosticEntrance, {"preferences", "unselect", "save", "apply"}) /\ BannersSkip(DiagnosticEntrance) /\ ClicksNamed(DiagnosticEntrance)
    BY DEF DiagnosticEntrance, Look, Click, Glance, Step, ActsOnceOn, BannersSkip, ClicksNamed, Acts, Clicks
  <1>4. /\ \A i \in DOMAIN DiagnosticEntrance : DiagnosticEntrance[i].do = "end" => i = 9
        /\ DiagnosticEntrance[9].do = "glance"
    BY DEF DiagnosticEntrance, Look, Click, Glance, Step
  <1>5. QED
    BY <1>2, <1>3, <1>4 DEF Piece, LastDo

LEMMA ProfileV2EntrancePiece == Piece(ProfileV2Entrance, {"preferences", "unselect", "save", "apply"}) /\ LastDo(ProfileV2Entrance) = "glance"
  <1>1. ProfileV2Entrance \in [1..9 -> {ProfileV2Entrance[i] : i \in 1..9}]
    BY DEF ProfileV2Entrance
  <1>2. Listed(ProfileV2Entrance) /\ Len(ProfileV2Entrance) = 9 /\ DOMAIN ProfileV2Entrance = 1..9
    BY <1>1, Listing
  <1>3. ActsOnceOn(ProfileV2Entrance, {"preferences", "unselect", "save", "apply"}) /\ BannersSkip(ProfileV2Entrance) /\ ClicksNamed(ProfileV2Entrance)
    BY DEF ProfileV2Entrance, Look, Click, Glance, Step, ActsOnceOn, BannersSkip, ClicksNamed, Acts, Clicks
  <1>4. /\ \A i \in DOMAIN ProfileV2Entrance : ProfileV2Entrance[i].do = "end" => i = 9
        /\ ProfileV2Entrance[9].do = "glance"
    BY DEF ProfileV2Entrance, Look, Click, Glance, Step
  <1>5. QED
    BY <1>2, <1>3, <1>4 DEF Piece, LastDo

LEMMA LiveInspectionPlanPiece == Piece(LiveInspectionPlan, {}) /\ LastDo(LiveInspectionPlan) = "end"
  <1>1. LiveInspectionPlan \in [1..2 -> {LiveInspectionPlan[i] : i \in 1..2}]
    BY DEF LiveInspectionPlan
  <1>2. Listed(LiveInspectionPlan) /\ Len(LiveInspectionPlan) = 2 /\ DOMAIN LiveInspectionPlan = 1..2
    BY <1>1, Listing
  <1>3. ActsOnceOn(LiveInspectionPlan, {}) /\ BannersSkip(LiveInspectionPlan) /\ ClicksNamed(LiveInspectionPlan)
    BY DEF LiveInspectionPlan, Look, End, Step, ActsOnceOn, BannersSkip, ClicksNamed, Acts, Clicks
  <1>4. /\ \A i \in DOMAIN LiveInspectionPlan : LiveInspectionPlan[i].do = "end" => i = 2
        /\ LiveInspectionPlan[2].do = "end"
    BY DEF LiveInspectionPlan, Look, End, Step
  <1>5. QED
    BY <1>2, <1>3, <1>4 DEF Piece, LastDo

LEMMA VerifiedSessionPlanPiece == Piece(VerifiedSessionPlan, {"apply"}) /\ LastDo(VerifiedSessionPlan) = "end"
  <1>1. VerifiedSessionPlan \in [1..7 -> {VerifiedSessionPlan[i] : i \in 1..7}]
    BY DEF VerifiedSessionPlan
  <1>2. Listed(VerifiedSessionPlan) /\ Len(VerifiedSessionPlan) = 7 /\ DOMAIN VerifiedSessionPlan = 1..7
    BY <1>1, Listing
  <1>3. ActsOnceOn(VerifiedSessionPlan, {"apply"}) /\ BannersSkip(VerifiedSessionPlan) /\ ClicksNamed(VerifiedSessionPlan)
    BY DEF VerifiedSessionPlan, Look, Click, Glance, End, ListButtons, Step, ActsOnceOn, BannersSkip, ClicksNamed, Acts, Clicks
  <1>4. /\ \A i \in DOMAIN VerifiedSessionPlan : VerifiedSessionPlan[i].do = "end" => i = 7
        /\ VerifiedSessionPlan[7].do = "end"
    BY DEF VerifiedSessionPlan, Look, Click, Glance, End, ListButtons, Step
  <1>5. QED
    BY <1>2, <1>3, <1>4 DEF Piece, LastDo

LEMMA SafeFillEntrancePiece ==
    ASSUME NEW policy
    PROVE  Piece(SafeFillEntrance(policy), {"deny", "apply"}) /\ LastDo(SafeFillEntrance(policy)) = "glance"
  <1> DEFINE e == SafeFillEntrance(policy)
  <1>1. e \in [1..6 -> {e[i] : i \in 1..6}]
    BY DEF SafeFillEntrance
  <1>2. Listed(e) /\ Len(e) = 6 /\ DOMAIN e = 1..6
    BY <1>1, Listing
  <1>3. ActsOnceOn(e, {"deny", "apply"}) /\ BannersSkip(e) /\ ClicksNamed(e)
    BY DEF SafeFillEntrance, Look, Banner, Click, Glance, Step, ActsOnceOn, BannersSkip, ClicksNamed, Acts, Clicks
  <1>4. /\ \A i \in DOMAIN e : e[i].do = "end" => i = 6
        /\ e[6].do = "glance"
    BY DEF SafeFillEntrance, Look, Banner, Click, Glance, Step
  <1> HIDE DEF e
  <1>5. Piece(e, {"deny", "apply"}) /\ LastDo(e) = "glance"
    BY <1>2, <1>3, <1>4 DEF Piece, LastDo
  <1>6. QED
    BY <1>5 DEF e

LEMMA LookPiece ==
    ASSUME NEW gates
    PROVE  LET e == << Look(gates) >>
    IN  Piece(e, {}) /\ LastDo(e) = "look"
  <1> DEFINE e == << Look(gates) >>
  <1>1. e \in [1..1 -> {e[i] : i \in 1..1}]
    OBVIOUS
  <1>2. Listed(e) /\ Len(e) = 1 /\ DOMAIN e = 1..1
    BY <1>1, Listing
  <1>3. ActsOnceOn(e, {}) /\ BannersSkip(e) /\ ClicksNamed(e)
    BY DEF Look, Step, ActsOnceOn, BannersSkip, ClicksNamed, Acts, Clicks
  <1>4. /\ \A i \in DOMAIN e : e[i].do = "end" => i = 1
        /\ e[1].do = "look"
    BY DEF Look, Step
  <1> HIDE DEF e
  <1>5. Piece(e, {}) /\ LastDo(e) = "look"
    BY <1>2, <1>3, <1>4 DEF Piece, LastDo
  <1>6. QED
    BY <1>5 DEF e

LEMMA FillTailPiece ==
    LET e == << Look({"fill_surface"}), ListButtons, End("filled_verified") >>
    IN  Piece(e, {}) /\ LastDo(e) = "end"
  <1> DEFINE e == << Look({"fill_surface"}), ListButtons, End("filled_verified") >>
  <1>1. e \in [1..3 -> {e[i] : i \in 1..3}]
    OBVIOUS
  <1>2. Listed(e) /\ Len(e) = 3 /\ DOMAIN e = 1..3
    BY <1>1, Listing
  <1>3. ActsOnceOn(e, {}) /\ BannersSkip(e) /\ ClicksNamed(e)
    BY DEF Look, ListButtons, Glance, End, Step, ActsOnceOn, BannersSkip, ClicksNamed, Acts, Clicks
  <1>4. /\ \A i \in DOMAIN e : e[i].do = "end" => i = 3
        /\ e[3].do = "end"
    BY DEF Look, ListButtons, Glance, End, Step
  <1> HIDE DEF e
  <1>5. Piece(e, {}) /\ LastDo(e) = "end"
    BY <1>2, <1>3, <1>4 DEF Piece, LastDo
  <1>6. QED
    BY <1>5 DEF e

LEMMA ContinueTailPiece ==
    LET e == << Look({"fill_surface"}), Glance({"actions"}, FALSE), Click("continue", {"label"}, FALSE),
              Glance({"one_tab"}, FALSE), Look({}), End("continued_inspected") >>
    IN  Piece(e, {"continue"}) /\ LastDo(e) = "end"
  <1> DEFINE e == << Look({"fill_surface"}), Glance({"actions"}, FALSE), Click("continue", {"label"}, FALSE),
              Glance({"one_tab"}, FALSE), Look({}), End("continued_inspected") >>
  <1>1. e \in [1..6 -> {e[i] : i \in 1..6}]
    OBVIOUS
  <1>2. Listed(e) /\ Len(e) = 6 /\ DOMAIN e = 1..6
    BY <1>1, Listing
  <1>3. ActsOnceOn(e, {"continue"}) /\ BannersSkip(e) /\ ClicksNamed(e)
    BY DEF Look, Click, Glance, End, Step, ActsOnceOn, BannersSkip, ClicksNamed, Acts, Clicks
  <1>4. /\ \A i \in DOMAIN e : e[i].do = "end" => i = 6
        /\ e[6].do = "end"
    BY DEF Look, Click, Glance, End, Step
  <1> HIDE DEF e
  <1>5. Piece(e, {"continue"}) /\ LastDo(e) = "end"
    BY <1>2, <1>3, <1>4 DEF Piece, LastDo
  <1>6. QED
    BY <1>5 DEF e

LEMMA DiagnosticTailPiece ==
    LET e == << Look({"fill_surface"}), Glance({"actions"}, FALSE), Click("continue", {"label"}, TRUE),
              Glance({"one_tab"}, FALSE), Look({}), Diagnose, End("diagnosed") >>
    IN  Piece(e, {"continue"}) /\ LastDo(e) = "end"
  <1> DEFINE e == << Look({"fill_surface"}), Glance({"actions"}, FALSE), Click("continue", {"label"}, TRUE),
              Glance({"one_tab"}, FALSE), Look({}), Diagnose, End("diagnosed") >>
  <1>1. e \in [1..7 -> {e[i] : i \in 1..7}]
    OBVIOUS
  <1>2. Listed(e) /\ Len(e) = 7 /\ DOMAIN e = 1..7
    BY <1>1, Listing
  <1>3. ActsOnceOn(e, {"continue"}) /\ BannersSkip(e) /\ ClicksNamed(e)
    BY DEF Look, Click, Diagnose, Glance, End, Step, ActsOnceOn, BannersSkip, ClicksNamed, Acts, Clicks
  <1>4. /\ \A i \in DOMAIN e : e[i].do = "end" => i = 7
        /\ e[7].do = "end"
    BY DEF Look, Click, Diagnose, Glance, End, Step
  <1> HIDE DEF e
  <1>5. Piece(e, {"continue"}) /\ LastDo(e) = "end"
    BY <1>2, <1>3, <1>4 DEF Piece, LastDo
  <1>6. QED
    BY <1>5 DEF e

LEMMA ProfileTailPiece ==
    LET e == << Glance({"actions"}, FALSE), Click("continue", {}, FALSE), Look({}), Diagnose,
              End("diagnosed") >>
    IN  Piece(e, {"continue"}) /\ LastDo(e) = "end"
  <1> DEFINE e == << Glance({"actions"}, FALSE), Click("continue", {}, FALSE), Look({}), Diagnose,
              End("diagnosed") >>
  <1>1. e \in [1..5 -> {e[i] : i \in 1..5}]
    OBVIOUS
  <1>2. Listed(e) /\ Len(e) = 5 /\ DOMAIN e = 1..5
    BY <1>1, Listing
  <1>3. ActsOnceOn(e, {"continue"}) /\ BannersSkip(e) /\ ClicksNamed(e)
    BY DEF Look, Click, Diagnose, Glance, End, Step, ActsOnceOn, BannersSkip, ClicksNamed, Acts, Clicks
  <1>4. /\ \A i \in DOMAIN e : e[i].do = "end" => i = 5
        /\ e[5].do = "end"
    BY DEF Look, Click, Diagnose, Glance, End, Step
  <1> HIDE DEF e
  <1>5. Piece(e, {"continue"}) /\ LastDo(e) = "end"
    BY <1>2, <1>3, <1>4 DEF Piece, LastDo
  <1>6. QED
    BY <1>5 DEF e

LEMMA ProfileLookPiece ==
    LET e == << Look({"off_boundary", "fill_surface"}), Glance({"phone_surface"}, TRUE) >>
    IN  Piece(e, {}) /\ LastDo(e) = "glance"
  <1> DEFINE e == << Look({"off_boundary", "fill_surface"}), Glance({"phone_surface"}, TRUE) >>
  <1>1. e \in [1..2 -> {e[i] : i \in 1..2}]
    OBVIOUS
  <1>2. Listed(e) /\ Len(e) = 2 /\ DOMAIN e = 1..2
    BY <1>1, Listing
  <1>3. ActsOnceOn(e, {}) /\ BannersSkip(e) /\ ClicksNamed(e)
    BY DEF Look, Glance, Step, ActsOnceOn, BannersSkip, ClicksNamed, Acts, Clicks
  <1>4. /\ \A i \in DOMAIN e : e[i].do = "end" => i = 2
        /\ e[2].do = "glance"
    BY DEF Look, Glance, Step
  <1> HIDE DEF e
  <1>5. Piece(e, {}) /\ LastDo(e) = "glance"
    BY <1>2, <1>3, <1>4 DEF Piece, LastDo
  <1>6. QED
    BY <1>5 DEF e

LEMMA SafeFillPlanPiece ==
    ASSUME NEW policy
    PROVE  (\E names : Piece(SafeFillPlan(policy), names)) /\ LastDo(SafeFillPlan(policy)) = "end"
  <1> DEFINE e == SafeFillEntrance(policy)
             l == << Look(FormGates) >>
             w == IdentityWrites({"located", "filled"})
             t == << Look({"fill_surface"}), ListButtons, End("filled_verified") >>
  <1>1. /\ Piece(e, {"deny", "apply"}) /\ LastDo(e) = "glance"
        /\ Piece(l, {}) /\ LastDo(l) = "look"
        /\ Piece(w, {"first_name", "last_name", "email"}) /\ LastDo(w) = "readback"
        /\ Piece(t, {}) /\ LastDo(t) = "end"
    BY SafeFillEntrancePiece, LookPiece, IdentityPiece, FillTailPiece
  <1> HIDE DEF e, l, w, t
  <1>2. Piece(e \o l, {"deny", "apply"} \cup {}) /\ LastDo(e \o l) = "look"
    BY <1>1, Joining
  <1>3. Piece((e \o l) \o w, ({"deny", "apply"} \cup {}) \cup {"first_name", "last_name", "email"}) /\ LastDo((e \o l) \o w) = "readback"
    BY <1>1, <1>2, Joining
  <1>4. Piece(((e \o l) \o w) \o t, (({"deny", "apply"} \cup {}) \cup {"first_name", "last_name", "email"}) \cup {}) /\ LastDo(((e \o l) \o w) \o t) = "end"
    BY <1>1, <1>3, Joining
  <1>5. QED
    BY <1>4 DEF SafeFillPlan, e, l, w, t

LEMMA PreferenceSafeFillPlanPiece ==
    (\E names : Piece(PreferenceSafeFillPlan, names)) /\ LastDo(PreferenceSafeFillPlan) = "end"
  <1> DEFINE e == PreferenceSafeFillEntrance
             l == << Look(FormGates) >>
             w == IdentityWrites({"located", "filled"})
             t == << Look({"fill_surface"}), ListButtons, End("filled_verified") >>
  <1>1. /\ Piece(e, {"preferences", "unselect", "save", "apply"}) /\ LastDo(e) = "glance"
        /\ Piece(l, {}) /\ LastDo(l) = "look"
        /\ Piece(w, {"first_name", "last_name", "email"}) /\ LastDo(w) = "readback"
        /\ Piece(t, {}) /\ LastDo(t) = "end"
    BY PreferenceSafeFillEntrancePiece, LookPiece, IdentityPiece, FillTailPiece
  <1> HIDE DEF e, l, w, t
  <1>2. Piece(e \o l, {"preferences", "unselect", "save", "apply"} \cup {}) /\ LastDo(e \o l) = "look"
    BY <1>1, Joining
  <1>3. Piece((e \o l) \o w, ({"preferences", "unselect", "save", "apply"} \cup {}) \cup {"first_name", "last_name", "email"}) /\ LastDo((e \o l) \o w) = "readback"
    BY <1>1, <1>2, Joining
  <1>4. Piece(((e \o l) \o w) \o t, (({"preferences", "unselect", "save", "apply"} \cup {}) \cup {"first_name", "last_name", "email"}) \cup {}) /\ LastDo(((e \o l) \o w) \o t) = "end"
    BY <1>1, <1>3, Joining
  <1>5. QED
    BY <1>4 DEF PreferenceSafeFillPlan, e, l, w, t

LEMMA ContinuePlanPiece ==
    (\E names : Piece(ContinuePlan, names)) /\ LastDo(ContinuePlan) = "end"
  <1> DEFINE e == ContinueEntrance
             l == << Look(FormGates) >>
             w == IdentityWrites({"located", "filled"})
             t == << Look({"fill_surface"}), Glance({"actions"}, FALSE), Click("continue", {"label"}, FALSE),
              Glance({"one_tab"}, FALSE), Look({}), End("continued_inspected") >>
  <1>1. /\ Piece(e, {"preferences", "unselect", "save", "apply"}) /\ LastDo(e) = "glance"
        /\ Piece(l, {}) /\ LastDo(l) = "look"
        /\ Piece(w, {"first_name", "last_name", "email"}) /\ LastDo(w) = "readback"
        /\ Piece(t, {"continue"}) /\ LastDo(t) = "end"
    BY ContinueEntrancePiece, LookPiece, IdentityPiece, ContinueTailPiece
  <1> HIDE DEF e, l, w, t
  <1>2. Piece(e \o l, {"preferences", "unselect", "save", "apply"} \cup {}) /\ LastDo(e \o l) = "look"
    BY <1>1, Joining
  <1>3. Piece((e \o l) \o w, ({"preferences", "unselect", "save", "apply"} \cup {}) \cup {"first_name", "last_name", "email"}) /\ LastDo((e \o l) \o w) = "readback"
    BY <1>1, <1>2, Joining
  <1>4. Piece(((e \o l) \o w) \o t, (({"preferences", "unselect", "save", "apply"} \cup {}) \cup {"first_name", "last_name", "email"}) \cup {"continue"}) /\ LastDo(((e \o l) \o w) \o t) = "end"
    BY <1>1, <1>3, Joining
  <1>5. QED
    BY <1>4 DEF ContinuePlan, e, l, w, t

LEMMA DiagnosticPlanPiece ==
    (\E names : Piece(DiagnosticPlan, names)) /\ LastDo(DiagnosticPlan) = "end"
  <1> DEFINE e == DiagnosticEntrance
             l == << Look({"off_boundary", "fill_surface"}) >>
             w == IdentityWrites({})
             t == << Look({"fill_surface"}), Glance({"actions"}, FALSE), Click("continue", {"label"}, TRUE),
              Glance({"one_tab"}, FALSE), Look({}), Diagnose, End("diagnosed") >>
  <1>1. /\ Piece(e, {"preferences", "unselect", "save", "apply"}) /\ LastDo(e) = "glance"
        /\ Piece(l, {}) /\ LastDo(l) = "look"
        /\ Piece(w, {"first_name", "last_name", "email"}) /\ LastDo(w) = "readback"
        /\ Piece(t, {"continue"}) /\ LastDo(t) = "end"
    BY DiagnosticEntrancePiece, LookPiece, IdentityPiece, DiagnosticTailPiece
  <1> HIDE DEF e, l, w, t
  <1>2. Piece(e \o l, {"preferences", "unselect", "save", "apply"} \cup {}) /\ LastDo(e \o l) = "look"
    BY <1>1, Joining
  <1>3. Piece((e \o l) \o w, ({"preferences", "unselect", "save", "apply"} \cup {}) \cup {"first_name", "last_name", "email"}) /\ LastDo((e \o l) \o w) = "readback"
    BY <1>1, <1>2, Joining
  <1>4. Piece(((e \o l) \o w) \o t, (({"preferences", "unselect", "save", "apply"} \cup {}) \cup {"first_name", "last_name", "email"}) \cup {"continue"}) /\ LastDo(((e \o l) \o w) \o t) = "end"
    BY <1>1, <1>3, Joining
  <1>5. QED
    BY <1>4 DEF DiagnosticPlan, e, l, w, t

LEMMA ProfileV2PlanPiece ==
    (\E names : Piece(ProfileV2Plan, names)) /\ LastDo(ProfileV2Plan) = "end"
  <1> DEFINE e == ProfileV2Entrance
             l == << Look({"off_boundary", "fill_surface"}), Glance({"phone_surface"}, TRUE) >>
             w == IdentityWrites({"located", "filled", "read"})
             ph == PhoneWrites({"located", "filled", "read"})
             t == << Glance({"actions"}, FALSE), Click("continue", {}, FALSE), Look({}), Diagnose,
              End("diagnosed") >>
  <1>1. /\ Piece(e, {"preferences", "unselect", "save", "apply"}) /\ LastDo(e) = "glance"
        /\ Piece(l, {}) /\ LastDo(l) = "glance"
        /\ Piece(w, {"first_name", "last_name", "email"}) /\ LastDo(w) = "readback"
        /\ Piece(ph, {"phone_country", "phone_number"}) /\ LastDo(ph) = "readback"
        /\ Piece(t, {"continue"}) /\ LastDo(t) = "end"
    BY ProfileV2EntrancePiece, ProfileLookPiece, IdentityPiece, PhonePiece, ProfileTailPiece
  <1> HIDE DEF e, l, w, ph, t
  <1>2. Piece(e \o l, {"preferences", "unselect", "save", "apply"} \cup {}) /\ LastDo(e \o l) = "glance"
    BY <1>1, Joining
  <1>3. Piece((e \o l) \o w, ({"preferences", "unselect", "save", "apply"} \cup {}) \cup {"first_name", "last_name", "email"}) /\ LastDo((e \o l) \o w) = "readback"
    BY <1>1, <1>2, Joining
  <1>4. Piece(((e \o l) \o w) \o ph, (({"preferences", "unselect", "save", "apply"} \cup {}) \cup {"first_name", "last_name", "email"}) \cup {"phone_country", "phone_number"}) /\ LastDo(((e \o l) \o w) \o ph) = "readback"
    BY <1>1, <1>3, Joining
  <1>5. Piece((((e \o l) \o w) \o ph) \o t, ((({"preferences", "unselect", "save", "apply"} \cup {}) \cup {"first_name", "last_name", "email"}) \cup {"phone_country", "phone_number"}) \cup {"continue"}) /\ LastDo((((e \o l) \o w) \o ph) \o t) = "end"
    BY <1>1, <1>4, Joining
  <1>6. QED
    BY <1>5 DEF ProfileV2Plan, e, l, w, ph, t

(* What the runs below need of a plan. *)
Sound(s) ==
    /\ DOMAIN s = 1..Len(s) /\ Len(s) \in Nat
    /\ \A i \in DOMAIN s : IF s[i].do = "end" THEN i = Len(s) ELSE i + 1 \in DOMAIN s
    /\ \A i, j \in DOMAIN s : Acts(s, i) /\ Acts(s, j) /\ s[i].on = s[j].on => i = j
    /\ BannersSkip(s) /\ ClicksNamed(s)

LEMMA PiecesAreSound ==
    ASSUME NEW s, \E names : Piece(s, names), LastDo(s) = "end"
    PROVE  Sound(s) /\ 1 \in DOMAIN s
  <1>1. PICK names : Piece(s, names)
    OBVIOUS
  <1>2. /\ DOMAIN s = 1..Len(s) /\ Len(s) \in Nat \ {0} /\ s[Len(s)].do = "end"
        /\ BannersSkip(s) /\ ClicksNamed(s)
    BY <1>1 DEF Piece, LastDo
  <1>3. \A i \in DOMAIN s : IF s[i].do = "end" THEN i = Len(s) ELSE i + 1 \in DOMAIN s
    BY <1>1, <1>2 DEF Piece
  <1>4. \A i, j \in DOMAIN s : Acts(s, i) /\ Acts(s, j) /\ s[i].on = s[j].on => i = j
    BY <1>1 DEF Piece, ActsOnceOn
  <1>5. QED
    BY <1>2, <1>3, <1>4 DEF Sound

LEMMA PlansAreSound ==
    ASSUME NEW c \in Canaries \cup {"smartrecruiters"}
    PROVE  Sound(Plan(c)) /\ (c \in Canaries => 1 \in DOMAIN Plan(c))
  <1>1. CASE c \in Canaries
    <2>1. (\E names : Piece(Plan(c), names)) /\ LastDo(Plan(c)) = "end"
      BY <1>1, NavigationPlanPiece, CookiePreferencesPlanPiece, SafeFillPlanPiece,
         PreferenceSafeFillPlanPiece, PhoneContractPlanPiece, ContinuePlanPiece, DiagnosticPlanPiece,
         ProfileV2PlanPiece, LiveInspectionPlanPiece, VerifiedSessionPlanPiece DEF Plan, Canaries
    <2>2. QED
      BY <2>1, PiecesAreSound
  <1>2. CASE c = "smartrecruiters"
    <2>1. Plan(c) = << >> /\ c \notin Canaries
      BY <1>2 DEF Plan, Canaries
    <2>2. QED
      BY <2>1 DEF Sound, BannersSkip, ClicksNamed
  <1>3. QED
    BY <1>1, <1>2

-----------------------------------------------------------------------------
(* The canaries: what they did, and what they reported. *)

Course == Plan(canary)

Fills(s, n) == {s[i].on : i \in {j \in DOMAIN s : j < n /\ s[j].do = "fill"}}

CountsTyped ==
    /\ canary \in Canaries \cup {"smartrecruiters"}
    /\ pc \in {0} \cup DOMAIN Course
    /\ attempts \in [Counters -> Nat] /\ successes \in [Counters -> Nat]
    /\ landed \in [Effects -> Nat]

CountedEffects ==
    \A c \in Counters : successes[c] <= Landings(c) /\ Landings(c) <= attempts[c]

(* Whatever was clicked has its step behind the run, *)
ClickedBehind ==
    /\ \A c \in Clicks : attempts[c] <= 1
    /\ pc # 0 => \A c \in Clicks : attempts[c] # 0 =>
          \E i \in DOMAIN Course : i < pc /\ Course[i].do = "click" /\ Course[i].on = c

(* and a click step behind the run succeeded, unless it was a skipped one. *)
BehindClicked ==
    pc # 0 => \A i \in DOMAIN Course :
        i < pc /\ Course[i].do = "click" /\ Course[i].on # "deny" => successes[Course[i].on] = 1

WrittenBehind ==
    /\ landed["write"] <= Cardinality(Targets(canary))
    /\ pc # 0 => landed["write"] <= Cardinality(Fills(Course, pc))

ReportedCounts ==
    /\ pc # 0 => report = Null
    /\ report # Null /\ report.status # "preflight_failed" =>
           report.attempts = attempts /\ report.successes = successes

(* What the checks before a click have found is there only until the click, *)
(* and is another button only where no label was compared.                  *)
AimAt(on, gates, e) == e = on \/ (e = "another" /\ on = "apply" /\ "label" \notin gates)

Aimed == target # Null => At("click") /\ AimAt(step.on, step.gates, target.what)

EntryOnce == stage \in {"off", "pre", "pre_body", "select", "fence", "follow"} => attempts["entry"] = 0

CountsInv == CountsTyped /\ CountedEffects /\ ClickedBehind /\ BehindClicked /\ WrittenBehind
             /\ ReportedCounts /\ EntryOnce /\ Aimed

LEMMA CourseIsSound ==
    ASSUME CountsTyped
    PROVE  Sound(Course) /\ (pc # 0 => pc \in DOMAIN Course /\ pc \in Nat)
  <1>1. Sound(Course)
    BY PlansAreSound DEF CountsTyped, Course
  <1>2. QED
    BY <1>1 DEF CountsTyped, Sound

(* How a step moves: it ends the run, stays, goes on, or skips a denial. *)
Moved ==
    /\ pc # 0 /\ canary' = canary
    /\ \/ pc' # 0 /\ report' = report
       \/ pc' = 0 /\ report' = report
       \/ pc' = 0 /\ report'.attempts = attempts' /\ report'.successes = successes'
       \/ pc' = 0 /\ report' = PreflightFailed
    /\ \/ pc' \in {0, pc}
       \/ step.do # "end" /\ pc' = pc + 1
       \/ step.do = "banner" /\ pc' = pc + 3

Quiet == UNCHANGED <<attempts, successes, landed>> /\ (step.do = "click" => pc' \in {0, pc})

Clicking(what, effect) ==
    /\ step.do = "click" /\ step.on = what /\ attempts' = Add(attempts, what)
    /\ effect = what \/ (effect = "another" /\ what = "apply")
    /\ \/ successes' = Add(successes, what) /\ landed' = Add(landed, effect) /\ pc' = pc + 1
       \/ UNCHANGED successes /\ landed' \in {landed, Add(landed, effect)} /\ pc' = 0

Writing ==
    /\ step.do = "fill" /\ attempts' = Add(attempts, "write")
    /\ \/ successes' = Add(successes, "write") /\ landed' = Add(landed, "write") /\ pc' = pc + 1
       \/ UNCHANGED successes /\ landed' \in {landed, Add(landed, "write")} /\ pc' = 0

LEMMA Movements ==
    ASSUME Next
    PROVE  Moved
  <1> USE DEF Moved, At, Steady, Unaimed, SameRun, Goto, Escapes, Blocked, Return, Counted, Untouched
  <1>1. ASSUME Drift PROVE Moved
    BY <1>1 DEF Drift
  <1>2. ASSUME Exception PROVE Moved
    BY <1>2 DEF Exception
  <1>3. ASSUME ReadForm \/ LookStep \/ SurveyStep PROVE Moved
    BY <1>3 DEF ReadForm, LookStep, SurveyStep
  <1>4. ASSUME GlanceStep \/ BannerStep PROVE Moved
    BY <1>4 DEF GlanceStep, BannerStep
  <1>5. ASSUME Unresolved \/ Resolved PROVE Moved
    BY <1>5 DEF Unresolved, Resolved, Aim
  <1>6. ASSUME ClickStep PROVE Moved
    BY <1>6 DEF ClickStep
  <1>7. ASSUME NotLocated \/ AlreadyHeld PROVE Moved
    BY <1>7 DEF NotLocated, AlreadyHeld
  <1>8. ASSUME Fill PROVE Moved
    BY <1>8 DEF Fill
  <1>9. ASSUME ReadBack \/ Finish PROVE Moved
    BY <1>9 DEF ReadBack, Finish
  <1>10. QED
    BY <1>1, <1>2, <1>3, <1>4, <1>5, <1>6, <1>7, <1>8, <1>9 DEF Next

LEMMA Doings ==
    ASSUME Next, CountsTyped, Aimed
    PROVE  Quiet \/ Writing \/ \E what \in Clicks \ {"entry"}, effect \in Effects : Clicking(what, effect)
  <1> USE DEF At, Steady, Unaimed, SameRun, Counted, Untouched
  <1>1. ASSUME Drift \/ Exception PROVE Quiet
    BY <1>1 DEF Drift, Exception, Quiet, Blocked, Escapes, Return
  <1>2. ASSUME ReadForm \/ LookStep \/ SurveyStep \/ GlanceStep \/ BannerStep PROVE Quiet
    BY <1>2 DEF ReadForm, LookStep, SurveyStep, GlanceStep, BannerStep, Quiet
  <1>3. ASSUME Unresolved \/ Resolved PROVE Quiet
    BY <1>3 DEF Unresolved, Resolved, Aim, Quiet, Blocked, Escapes, Return
  <1>4. ASSUME NotLocated \/ AlreadyHeld \/ ReadBack \/ Finish PROVE Quiet
    BY <1>4 DEF NotLocated, AlreadyHeld, ReadBack, Finish, Quiet
  <1>5. ASSUME Fill PROVE Writing
    BY <1>5 DEF Fill, Writing, Landed, Goto, Blocked, Escapes, Return
  <1>6. ASSUME ClickStep PROVE \E what \in Clicks \ {"entry"}, effect \in Effects : Clicking(what, effect)
    <2>1. pc # 0 /\ step.do = "click"
      BY <1>6 DEF ClickStep
    <2>2. step.on \in Clicks \ {"entry"}
      BY <2>1, CourseIsSound DEF Sound, ClicksNamed, Course, step
    <2>3. PICK e \in Met(step.on) :
             /\ attempts' = Add(attempts, step.on)
             /\ \/ /\ e # "nothing" /\ \E p \in After(e) : Landed(e, p)
                   /\ successes' = Add(successes, step.on) /\ Goto(pc + 1)
                \/ /\ Untouched \/ (e # "nothing" /\ \E p \in After(e) : Landed(e, p))
                   /\ UNCHANGED successes /\ Blocked
      BY <1>6 DEF ClickStep
    <2>4. e \in {step.on, "nothing"} \/ (e = "another" /\ step.on = "apply")
      BY <1>6, <2>2, <2>3 DEF ClickStep, Met, ButtonFound, Clicks, Aimed, AimAt
    <2>5. PICK effect \in Effects :
             /\ effect = step.on \/ (effect = "another" /\ step.on = "apply")
             /\ e # "nothing" => e = effect
      BY <2>2, <2>4 DEF Clicks, Effects, Counters
    <2>6. Clicking(step.on, effect)
      BY <2>1, <2>3, <2>5 DEF Clicking, Landed, Goto, Blocked, Escapes, Return
    <2>7. QED
      BY <2>2, <2>5, <2>6
  <1>7. QED
    BY <1>1, <1>2, <1>3, <1>4, <1>5, <1>6 DEF Next

LEMMA FillsAreFinite ==
    ASSUME CountsTyped, NEW n \in Nat
    PROVE  /\ IsFiniteSet(Targets(canary)) /\ Cardinality(Targets(canary)) \in Nat
           /\ IsFiniteSet(Fills(Course, n)) /\ Cardinality(Fills(Course, n)) \in Nat
           /\ Cardinality(Fills(Course, n)) <= Cardinality(Targets(canary))
  <1> DEFINE places == {j \in DOMAIN Course : Course[j].do = "fill"}
  <1>1. DOMAIN Course = 1..Len(Course) /\ Len(Course) \in Nat
    BY CourseIsSound DEF Sound
  <1>2. IsFiniteSet(DOMAIN Course)
    BY <1>1, FS_Interval
  <1>3. IsFiniteSet(places)
    BY <1>2, FS_Subset
  <1>4. Targets(canary) = {Course[i].on : i \in places}
    BY DEF Targets, Course
  <1> HIDE DEF places
  <1>5. IsFiniteSet({Course[i].on : i \in places})
    <2> DEFINE f == [i \in places |-> Course[i].on]
    <2>1. f \in Surjection(places, {Course[i].on : i \in places})
      BY DEF Surjection
    <2>2. QED
      BY <1>3, <2>1, FS_Surjection
  <1>6. Fills(Course, n) \subseteq Targets(canary)
    BY <1>4 DEF Fills, places
  <1>7. QED
    BY <1>4, <1>5, <1>6, FS_Subset, FS_CardinalityType

LEMMA FillsGrow ==
    ASSUME CountsTyped, NEW m \in Nat, NEW n \in Nat, m <= n
    PROVE  Cardinality(Fills(Course, m)) <= Cardinality(Fills(Course, n))
  <1>1. Fills(Course, m) \subseteq Fills(Course, n)
    <2>1. DOMAIN Course \subseteq Nat
      BY CourseIsSound DEF Sound
    <2>2. {j \in DOMAIN Course : j < m /\ Course[j].do = "fill"}
             \subseteq {j \in DOMAIN Course : j < n /\ Course[j].do = "fill"}
      BY <2>1
    <2>3. QED
      BY <2>2 DEF Fills
  <1>2. QED
    BY <1>1, FillsAreFinite, FS_Subset

(* A fill has a target no fill before it had. *)
LEMMA FillAddsTarget ==
    ASSUME CountsTyped, pc # 0, step.do = "fill"
    PROVE  Cardinality(Fills(Course, pc + 1)) = Cardinality(Fills(Course, pc)) + 1
  <1>1. pc \in DOMAIN Course /\ pc \in Nat /\ step = Course[pc]
    BY CourseIsSound DEF step, Course
  <1>2. DOMAIN Course \subseteq Nat
    BY CourseIsSound DEF Sound
  <1>3. Fills(Course, pc + 1) = Fills(Course, pc) \cup {Course[pc].on}
    <2>1. {j \in DOMAIN Course : j < pc + 1 /\ Course[j].do = "fill"}
             = {j \in DOMAIN Course : j < pc /\ Course[j].do = "fill"} \cup {pc}
      BY <1>1, <1>2
    <2>2. QED
      BY <2>1 DEF Fills
  <1>4. Course[pc].on \notin Fills(Course, pc)
    <2>1. SUFFICES ASSUME NEW j \in DOMAIN Course, j < pc, Course[j].do = "fill",
                          Course[j].on = Course[pc].on
                   PROVE  FALSE
      BY DEF Fills
    <2>2. j = pc
      BY <1>1, <2>1, CourseIsSound DEF Sound, Acts
    <2>3. QED
      BY <1>1, <2>1, <2>2
  <1>5. QED
    BY <1>1, <1>3, <1>4, FillsAreFinite, FS_AddElement

(* Wherever a run goes on to, it goes forward to a step of its plan. *)
LEMMA Forward ==
    ASSUME CountsTyped, Moved
    PROVE  /\ Course' = Course /\ pc' \in {0} \cup DOMAIN Course
           /\ pc' # 0 => pc' \in Nat /\ pc <= pc'
           /\ pc' # 0 => \A i \in DOMAIN Course :
                 pc <= i /\ i < pc' => /\ pc' = pc + 1 /\ i = pc
                                       \/ /\ Course[i].do \notin {"look", "survey"}
                                          /\ Acts(Course, i) => Course[i].on = "deny"
  <1>1. /\ pc # 0 /\ canary' = canary /\ pc \in DOMAIN Course /\ pc \in Nat /\ step = Course[pc]
        /\ Sound(Course) /\ Course' = Course
    BY CourseIsSound DEF Moved, step, Course
  <1>2. DOMAIN Course = 1..Len(Course) /\ Len(Course) \in Nat
    BY <1>1 DEF Sound
  <1>3. CASE pc' \in {0, pc}
    BY <1>1, <1>2, <1>3
  <1>4. CASE step.do # "end" /\ pc' = pc + 1
    <2>1. pc' \in DOMAIN Course
      BY <1>1, <1>4 DEF Sound
    <2>2. QED
      BY <1>1, <1>2, <1>4, <2>1
  <1>5. CASE step.do = "banner" /\ pc' = pc + 3
    <2>1. /\ pc + 3 \in DOMAIN Course
          /\ \A m \in {pc + 1, pc + 2} : /\ Course[m].do \notin {"look", "survey"}
                                         /\ Acts(Course, m) => Course[m].on = "deny"
      BY <1>1, <1>5 DEF Sound, BannersSkip
    <2>2. Course[pc].do \notin {"look", "survey"} /\ ~Acts(Course, pc)
      BY <1>1, <1>5 DEF Acts
    <2>3. \A i \in DOMAIN Course : pc <= i /\ i < pc' => i \in {pc, pc + 1, pc + 2}
      BY <1>1, <1>2, <1>5
    <2>4. QED
      BY <1>1, <1>2, <1>5, <2>1, <2>2, <2>3
  <1>6. QED
    BY <1>3, <1>4, <1>5 DEF Moved

LEMMA ReportedPreserved ==
    ASSUME ReportedCounts, Moved
    PROVE  ReportedCounts'
  BY DEF ReportedCounts, Moved, PreflightFailed

(* The checks are followed by their click, or nothing is found at all. *)
LEMMA AimKept ==
    ASSUME Next, CountsTyped, Aimed
    PROVE  Aimed'
  <1> USE DEF At, Unaimed, Steady, SameRun
  <1>1. ASSUME Drift PROVE Aimed'
    BY <1>1 DEF Drift, Aimed, step
  <1>2. ASSUME Exception PROVE Aimed'
    BY <1>2 DEF Exception, Aimed
  <1>3. ASSUME ReadForm \/ LookStep \/ SurveyStep \/ GlanceStep \/ BannerStep PROVE Aimed'
    BY <1>3 DEF ReadForm, LookStep, SurveyStep, GlanceStep, BannerStep, Aimed
  <1>4. ASSUME Unresolved PROVE Aimed'
    BY <1>4 DEF Unresolved, Aimed
  <1>5. ASSUME Resolved PROVE Aimed'
    <2>1. PICK e \in Found(step.on) \ {"nothing"} : ("label" \in step.gates => e # "another") /\ Aim(e)
      BY <1>5 DEF Resolved
    <2>2. AimAt(step.on, step.gates, e)
      <3>1. step.on \in Clicks \ {"entry"}
        BY <1>5, CourseIsSound DEF Resolved, Sound, ClicksNamed, Course, step
      <3>2. QED
        BY <2>1, <3>1 DEF Found, EntryFound, ButtonFound, Clicks, AimAt
    <2>3. step' = step /\ pc' = pc /\ target'.what = e
      BY <2>1 DEF Aim, step
    <2>4. QED
      BY <1>5, <2>2, <2>3 DEF Resolved, Aimed
  <1>6. ASSUME ClickStep PROVE Aimed'
    BY <1>6 DEF ClickStep, Aimed
  <1>7. ASSUME NotLocated \/ AlreadyHeld \/ Fill \/ ReadBack \/ Finish PROVE Aimed'
    BY <1>7 DEF NotLocated, AlreadyHeld, Fill, ReadBack, Finish, Aimed
  <1>8. QED
    BY <1>1, <1>2, <1>3, <1>4, <1>5, <1>6, <1>7 DEF Next

(* A step that clicks and writes nothing. *)
LEMMA QuietPreserves ==
    ASSUME CountsInv, Moved, Quiet, Aimed', stage' = stage
    PROVE  CountsInv'
  <1>1. CountsTyped /\ pc # 0 /\ canary' = canary
    BY DEF CountsInv, Moved
  <1>2. /\ Course' = Course /\ pc' \in {0} \cup DOMAIN Course
        /\ pc' # 0 => pc' \in Nat /\ pc <= pc'
        /\ pc \in DOMAIN Course /\ pc \in Nat /\ step = Course[pc] /\ DOMAIN Course \subseteq Nat
    BY <1>1, Forward, CourseIsSound DEF step, Course, Sound
  <1>3. /\ attempts' = attempts /\ successes' = successes /\ landed' = landed
        /\ step.do = "click" => pc' \in {0, pc}
    BY DEF Quiet
  <1>4. CountsTyped'
    BY <1>1, <1>2, <1>3 DEF CountsTyped
  <1>5. CountedEffects' /\ EntryOnce'
    BY <1>3 DEF CountsInv, CountedEffects, Landings, EntryOnce
  <1>6. ClickedBehind'
    BY <1>1, <1>2, <1>3 DEF CountsInv, ClickedBehind
  <1>7. BehindClicked'
    <2>1. SUFFICES ASSUME pc' # 0, NEW i \in DOMAIN Course, i < pc', Course[i].do = "click",
                          Course[i].on # "deny"
                   PROVE  successes[Course[i].on] = 1
      BY <1>2, <1>3 DEF BehindClicked
    <2>2. CASE i < pc
      BY <1>1, <2>1, <2>2 DEF CountsInv, BehindClicked
    <2>3. CASE pc <= i
      <3>1. pc' = pc + 1 /\ i = pc
        BY <1>1, <2>1, <2>3, Forward DEF Acts
      <3>2. QED
        BY <1>2, <1>3, <2>1, <3>1
    <2>4. QED
      BY <1>2, <2>2, <2>3
  <1>8. WrittenBehind'
    <2>1. landed["write"] <= Cardinality(Targets(canary)) /\ landed["write"] <= Cardinality(Fills(Course, pc))
      BY <1>1 DEF CountsInv, WrittenBehind
    <2>2. landed["write"] \in Nat
      BY <1>1 DEF CountsTyped, Effects, Counters
    <2>3. pc' # 0 => landed["write"] <= Cardinality(Fills(Course, pc'))
      <3>1. HAVE pc' # 0
      <3>2. pc' \in Nat /\ Cardinality(Fills(Course, pc)) <= Cardinality(Fills(Course, pc'))
        BY <1>1, <1>2, <3>1, FillsGrow
      <3>3. Cardinality(Fills(Course, pc)) \in Nat /\ Cardinality(Fills(Course, pc')) \in Nat
        BY <1>1, <1>2, <3>2, FillsAreFinite
      <3>4. QED
        BY <2>1, <2>2, <3>2, <3>3
    <2>4. QED
      BY <1>1, <1>2, <1>3, <2>1, <2>3 DEF WrittenBehind
  <1>9. ReportedCounts'
    BY ReportedPreserved DEF CountsInv
  <1>10. QED
    BY <1>4, <1>5, <1>6, <1>7, <1>8, <1>9 DEF CountsInv

LEMMA WritingPreserves ==
    ASSUME CountsInv, Moved, Writing, Aimed', stage' = stage
    PROVE  CountsInv'
  <1>1. CountsTyped /\ pc # 0 /\ canary' = canary
    BY DEF CountsInv, Moved
  <1>2. /\ Course' = Course /\ pc' \in {0} \cup DOMAIN Course
        /\ pc' # 0 => pc' \in Nat /\ pc <= pc'
        /\ pc \in DOMAIN Course /\ pc \in Nat /\ step = Course[pc] /\ DOMAIN Course \subseteq Nat
    BY <1>1, Forward, CourseIsSound DEF step, Course, Sound
  <1>3. /\ step.do = "fill" /\ attempts' = [attempts EXCEPT !["write"] = @ + 1]
        /\ \/ /\ successes' = [successes EXCEPT !["write"] = @ + 1]
              /\ landed' = [landed EXCEPT !["write"] = @ + 1] /\ pc' = pc + 1
           \/ /\ successes' = successes /\ pc' = 0
              /\ landed' = landed \/ landed' = [landed EXCEPT !["write"] = @ + 1]
    BY DEF Writing, Add
  <1>4. /\ attempts \in [Counters -> Nat] /\ successes \in [Counters -> Nat] /\ landed \in [Effects -> Nat]
        /\ "write" \in Counters /\ "write" \in Effects /\ "write" \notin Clicks /\ Counters \subseteq Effects
        /\ Clicks \subseteq Counters /\ "another" \in Effects /\ "another" # "write"
    BY <1>1 DEF CountsTyped, Counters, Effects, Clicks
  <1>5. CountsTyped'
    BY <1>1, <1>2, <1>3, <1>4 DEF CountsTyped
  <1>6. CountedEffects'
    BY <1>3, <1>4 DEF CountsInv, CountedEffects, Landings
  <1>7. \A c \in Clicks : attempts'[c] = attempts[c] /\ successes'[c] = successes[c]
    BY <1>3, <1>4
  <1>8. EntryOnce'
    BY <1>7 DEF CountsInv, EntryOnce, Clicks
  <1>9. ClickedBehind'
    BY <1>1, <1>2, <1>7 DEF CountsInv, ClickedBehind
  <1>10. BehindClicked'
    <2>1. SUFFICES ASSUME pc' # 0, NEW i \in DOMAIN Course, i < pc', Course[i].do = "click",
                          Course[i].on # "deny"
                   PROVE  successes'[Course[i].on] = 1
      BY <1>2 DEF BehindClicked
    <2>2. Course[i].on \in Clicks
      BY <1>1, <2>1, CourseIsSound DEF Sound, ClicksNamed
    <2>3. i # pc /\ pc' = pc + 1
      BY <1>2, <1>3, <2>1
    <2>4. i < pc
      BY <1>2, <2>1, <2>3
    <2>5. QED
      BY <1>1, <1>7, <2>1, <2>2, <2>4 DEF CountsInv, BehindClicked
  <1>11. WrittenBehind'
    <2>1. landed["write"] <= Cardinality(Fills(Course, pc)) /\ landed["write"] \in Nat
      BY <1>1, <1>4 DEF CountsInv, WrittenBehind
    <2>2. landed'["write"] <= landed["write"] + 1 /\ landed'["write"] \in Nat
      BY <1>3, <1>4
    <2>3. Cardinality(Fills(Course, pc + 1)) = Cardinality(Fills(Course, pc)) + 1
      BY <1>1, <1>3, FillAddsTarget
    <2>4. /\ Cardinality(Fills(Course, pc)) \in Nat /\ Cardinality(Targets(canary)) \in Nat
          /\ Cardinality(Fills(Course, pc + 1)) <= Cardinality(Targets(canary))
      BY <1>1, <1>2, FillsAreFinite
    <2>5. landed'["write"] <= Cardinality(Fills(Course, pc + 1))
      BY <2>1, <2>2, <2>3, <2>4
    <2>6. landed'["write"] <= Cardinality(Targets(canary))
      BY <2>2, <2>3, <2>4, <2>5
    <2>7. pc' # 0 => pc' = pc + 1
      BY <1>3
    <2>8. QED
      BY <1>1, <1>2, <2>5, <2>6, <2>7 DEF WrittenBehind
  <1>12. ReportedCounts'
    BY ReportedPreserved DEF CountsInv
  <1>13. QED
    BY <1>5, <1>6, <1>8, <1>9, <1>10, <1>11, <1>12 DEF CountsInv

LEMMA ClickingPreserves ==
    ASSUME CountsInv, Moved, Aimed', stage' = stage,
           NEW what \in Clicks \ {"entry"}, NEW effect \in Effects, Clicking(what, effect)
    PROVE  CountsInv'
  <1>1. CountsTyped /\ pc # 0 /\ canary' = canary
    BY DEF CountsInv, Moved
  <1>2. /\ Course' = Course /\ pc' \in {0} \cup DOMAIN Course
        /\ pc' # 0 => pc' \in Nat /\ pc <= pc'
        /\ pc \in DOMAIN Course /\ pc \in Nat /\ step = Course[pc] /\ DOMAIN Course \subseteq Nat
    BY <1>1, Forward, CourseIsSound DEF step, Course, Sound
  <1>3. /\ step.do = "click" /\ step.on = what /\ attempts' = [attempts EXCEPT ![what] = @ + 1]
        /\ effect = what \/ (effect = "another" /\ what = "apply")
        /\ \/ /\ successes' = [successes EXCEPT ![what] = @ + 1]
              /\ landed' = [landed EXCEPT ![effect] = @ + 1] /\ pc' = pc + 1
           \/ /\ successes' = successes /\ pc' = 0
              /\ landed' = landed \/ landed' = [landed EXCEPT ![effect] = @ + 1]
    BY DEF Clicking, Add
  <1>4. /\ attempts \in [Counters -> Nat] /\ successes \in [Counters -> Nat] /\ landed \in [Effects -> Nat]
        /\ what \in Counters /\ what \in Clicks /\ what # "entry" /\ Counters \subseteq Effects
        /\ Clicks \subseteq Counters /\ "another" \in Effects /\ "another" \notin Counters
        /\ "apply" \in Clicks /\ "entry" \in Clicks /\ "write" \in Counters /\ "write" \notin Clicks
        /\ effect # "write"
    BY <1>1, <1>3 DEF CountsTyped, Counters, Effects, Clicks
  <1>5. CountsTyped'
    <2>1. attempts' \in [Counters -> Nat] /\ successes' \in [Counters -> Nat] /\ landed' \in [Effects -> Nat]
      BY <1>3, <1>4
    <2>2. QED
      BY <1>1, <1>2, <2>1 DEF CountsTyped
  <1>6. attempts[what] = 0
    <2>1. SUFFICES ASSUME attempts[what] # 0 PROVE FALSE
      OBVIOUS
    <2>2. PICK i \in DOMAIN Course : i < pc /\ Course[i].do = "click" /\ Course[i].on = what
      BY <1>1, <1>4, <2>1 DEF CountsInv, ClickedBehind
    <2>3. i = pc
      BY <1>1, <1>2, <1>3, <2>2, CourseIsSound DEF Sound, Acts
    <2>4. QED
      BY <1>2, <2>2, <2>3
  <1>7. successes[what] = 0 /\ Landings(what) = 0 /\ Landings(what) \in Nat
    <2>1. successes[what] <= Landings(what) /\ Landings(what) <= 0
      BY <1>4, <1>6 DEF CountsInv, CountedEffects
    <2>2. Landings(what) \in Nat /\ successes[what] \in Nat
      BY <1>4 DEF Landings
    <2>3. QED
      BY <2>1, <2>2
  <1>8. attempts'[what] = 1 /\ (pc' # 0 => successes'[what] = 1)
    BY <1>3, <1>4, <1>6, <1>7
  <1>9. CountedEffects'
    <2>1. SUFFICES ASSUME NEW c \in Counters
                   PROVE  successes'[c] <= Landings(c)' /\ Landings(c)' <= attempts'[c]
      BY DEF CountedEffects
    <2>2. CASE c = what
      <3>1. Landings(what)' \in {0, 1} /\ (pc' # 0 => Landings(what)' = 1)
        BY <1>3, <1>4, <1>7 DEF Landings
      <3>2. successes'[what] = IF pc' = 0 THEN 0 ELSE 1
        BY <1>2, <1>3, <1>7, <1>8
      <3>3. QED
        BY <1>8, <2>2, <3>1, <3>2
    <2>3. CASE c # what
      <3>1. attempts'[c] = attempts[c] /\ successes'[c] = successes[c] /\ Landings(c)' = Landings(c)
        BY <1>3, <1>4, <2>1, <2>3 DEF Landings
      <3>2. QED
        BY <3>1 DEF CountsInv, CountedEffects
    <2>4. QED
      BY <2>2, <2>3
  <1>10. \A c \in Counters : c # what => attempts'[c] = attempts[c] /\ successes'[c] = successes[c]
    BY <1>3, <1>4
  <1>11. EntryOnce'
    BY <1>4, <1>10 DEF CountsInv, EntryOnce
  <1>12. ClickedBehind'
    <2>1. \A c \in Clicks : attempts'[c] <= 1
      BY <1>4, <1>8, <1>10 DEF CountsInv, ClickedBehind
    <2>2. ASSUME pc' # 0, NEW c \in Clicks, attempts'[c] # 0
          PROVE  \E i \in DOMAIN Course : i < pc' /\ Course[i].do = "click" /\ Course[i].on = c
      <3>1. pc' = pc + 1
        BY <1>3, <2>2
      <3>2. CASE c = what
        BY <1>2, <1>3, <3>1, <3>2
      <3>3. CASE c # what
        <4>1. PICK i \in DOMAIN Course : i < pc /\ Course[i].do = "click" /\ Course[i].on = c
          BY <1>1, <1>4, <1>10, <2>2, <3>3 DEF CountsInv, ClickedBehind
        <4>2. QED
          BY <1>2, <3>1, <4>1
      <3>4. QED
        BY <3>2, <3>3
    <2>3. QED
      BY <1>2, <2>1, <2>2 DEF ClickedBehind
  <1>13. BehindClicked'
    <2>1. SUFFICES ASSUME pc' # 0, NEW i \in DOMAIN Course, i < pc', Course[i].do = "click",
                          Course[i].on # "deny"
                   PROVE  successes'[Course[i].on] = 1
      BY <1>2 DEF BehindClicked
    <2>2. pc' = pc + 1 /\ Course[i].on \in Clicks
      BY <1>1, <1>3, <2>1, CourseIsSound DEF Sound, ClicksNamed
    <2>3. CASE i = pc
      BY <1>2, <1>3, <1>8, <2>1, <2>3
    <2>4. CASE i # pc
      <3>1. i < pc
        BY <1>2, <2>1, <2>2, <2>4
      <3>2. successes[Course[i].on] = 1
        BY <1>1, <2>1, <3>1 DEF CountsInv, BehindClicked
      <3>3. Course[i].on # what
        BY <1>7, <3>2
      <3>4. QED
        BY <1>4, <1>10, <2>2, <3>2, <3>3
    <2>5. QED
      BY <2>3, <2>4
  <1>14. WrittenBehind'
    <2>1. landed'["write"] = landed["write"]
      BY <1>3, <1>4
    <2>2. /\ landed["write"] <= Cardinality(Targets(canary)) /\ landed["write"] \in Nat
          /\ landed["write"] <= Cardinality(Fills(Course, pc))
      BY <1>1, <1>4 DEF CountsInv, WrittenBehind
    <2>3. pc' # 0 => landed["write"] <= Cardinality(Fills(Course, pc'))
      <3>1. HAVE pc' # 0
      <3>2. pc' \in Nat /\ Cardinality(Fills(Course, pc)) <= Cardinality(Fills(Course, pc'))
        BY <1>1, <1>2, <3>1, FillsGrow
      <3>3. Cardinality(Fills(Course, pc)) \in Nat /\ Cardinality(Fills(Course, pc')) \in Nat
        BY <1>1, <1>2, <3>2, FillsAreFinite
      <3>4. QED
        BY <2>2, <3>2, <3>3
    <2>4. QED
      BY <1>1, <1>2, <2>1, <2>2, <2>3 DEF WrittenBehind
  <1>15. ReportedCounts'
    BY ReportedPreserved DEF CountsInv
  <1>16. QED
    BY <1>5, <1>9, <1>11, <1>12, <1>13, <1>14, <1>15 DEF CountsInv

LEMMA CanaryCounts ==
    ASSUME CountsInv, Next, UNCHANGED inspector
    PROVE  CountsInv'
  <1>1. Moved /\ Aimed' /\ stage' = stage
    BY Movements, AimKept DEF CountsInv, inspector
  <1>2. CASE Quiet
    BY <1>1, <1>2, QuietPreserves
  <1>3. CASE Writing
    BY <1>1, <1>3, WritingPreserves
  <1>4. CASE \E what \in Clicks \ {"entry"}, effect \in Effects : Clicking(what, effect)
    BY <1>1, <1>4, ClickingPreserves
  <1>5. QED
    BY <1>2, <1>3, <1>4, Doings DEF CountsInv

(* An inspection counts the entry it follows, and reports its counters. *)
LEMMA InspectionCounts ==
    ASSUME CountsInv, pc = 0, UNCHANGED <<canary, pc, target, successes>>,
           \/ UNCHANGED <<attempts, landed>> /\ (stage' \in {"off", "pre", "pre_body", "select", "fence", "follow"} =>
                 stage \in {"off", "pre", "pre_body", "select", "fence", "follow"})
           \/ /\ stage = "follow" /\ stage' \in {"settle", "unfence"}
              /\ attempts' = Add(attempts, "entry") /\ landed' \in {landed, Add(landed, "entry")},
           \/ report' = report /\ (report # Null => UNCHANGED attempts)
           \/ report'.attempts = attempts' /\ report'.successes = successes'
    PROVE  CountsInv'
  <1>1. CountsTyped /\ Course' = Course
    BY DEF CountsInv, Course
  <1>2. /\ attempts \in [Counters -> Nat] /\ successes \in [Counters -> Nat] /\ landed \in [Effects -> Nat]
        /\ "entry" \in Counters /\ "entry" \in Clicks /\ Clicks \subseteq Counters /\ Counters \subseteq Effects
        /\ "entry" # "another" /\ "another" \in Effects /\ "write" \in Effects /\ "entry" # "apply" /\ "write" # "entry"
    BY <1>1 DEF CountsTyped, Counters, Effects, Clicks
  <1>3. ReportedCounts' /\ Aimed'
    BY DEF CountsInv, ReportedCounts, Aimed, At
  <1>4. CASE UNCHANGED <<attempts, landed>>
    <2>1. CountsTyped' /\ CountedEffects' /\ ClickedBehind' /\ BehindClicked' /\ WrittenBehind'
      BY <1>1, <1>4 DEF CountsInv, CountsTyped, CountedEffects, ClickedBehind, BehindClicked,
         WrittenBehind, Landings
    <2>2. EntryOnce'
      BY <1>4 DEF CountsInv, EntryOnce
    <2>3. QED
      BY <1>3, <2>1, <2>2 DEF CountsInv
  <1>5. CASE /\ stage = "follow" /\ stage' \in {"settle", "unfence"}
             /\ attempts' = Add(attempts, "entry") /\ landed' \in {landed, Add(landed, "entry")}
    <2>1. /\ attempts' = [attempts EXCEPT !["entry"] = @ + 1]
          /\ landed' = landed \/ landed' = [landed EXCEPT !["entry"] = @ + 1]
          /\ successes' = successes
      BY <1>5 DEF Add
    <2>2. CountsTyped'
      BY <1>1, <1>2, <2>1 DEF CountsTyped
    <2>3. attempts["entry"] = 0
      BY <1>5 DEF CountsInv, EntryOnce
    <2>4. CountedEffects'
      BY <1>2, <2>1 DEF CountsInv, CountedEffects, Landings
    <2>5. ClickedBehind' /\ BehindClicked'
      BY <1>2, <2>1, <2>3 DEF CountsInv, ClickedBehind, BehindClicked
    <2>6. WrittenBehind'
      BY <1>1, <1>2, <2>1 DEF CountsInv, WrittenBehind
    <2>7. EntryOnce'
      BY <1>5 DEF EntryOnce
    <2>8. QED
      BY <1>3, <2>2, <2>4, <2>5, <2>6, <2>7 DEF CountsInv
  <1>6. QED
    BY <1>4, <1>5

LEMMA CountsInitInv == LiveInit => CountsInv
  <1> SUFFICES ASSUME LiveInit PROVE CountsInv
    OBVIOUS
  <1>1. /\ report = Null /\ attempts = None /\ successes = None /\ landed = [e \in Effects |-> 0]
        /\ \/ canary \in Canary /\ pc = 1
           \/ canary = "smartrecruiters" /\ pc = 0
    BY DEF LiveInit, Init, Fresh
  <1>2. CountsTyped
    <2>1. attempts \in [Counters -> Nat] /\ successes \in [Counters -> Nat] /\ landed \in [Effects -> Nat]
      BY <1>1 DEF None
    <2>2. canary \in Canaries => 1 \in DOMAIN Course
      BY PlansAreSound DEF Course
    <2>3. QED
      BY <1>1, <2>1, <2>2, CanaryAssumption DEF CountsTyped
  <1>3. /\ \A c \in Counters : attempts[c] = 0 /\ successes[c] = 0 /\ Landings(c) = 0
        /\ landed["write"] = 0
    BY <1>1 DEF None, Landings, Counters, Effects
  <1>4. CountedEffects /\ EntryOnce
    BY <1>3 DEF CountedEffects, EntryOnce, Counters, Clicks
  <1>5. ClickedBehind
    BY <1>3 DEF ClickedBehind, Counters
  <1>6. BehindClicked
    <2>1. \A i \in DOMAIN Course : ~(i < 1)
      BY <1>2, CourseIsSound DEF Sound
    <2>2. QED
      BY <1>1, <2>1 DEF BehindClicked
  <1>7. WrittenBehind
    <2>1. /\ Cardinality(Targets(canary)) \in Nat
          /\ pc \in Nat /\ Cardinality(Fills(Course, pc)) \in Nat
      BY <1>1, <1>2, FillsAreFinite
    <2>2. QED
      BY <1>3, <2>1 DEF WrittenBehind
  <1>8. ReportedCounts /\ Aimed
    BY <1>1 DEF ReportedCounts, Aimed, LiveInit, Init, Fresh
  <1>9. QED
    BY <1>2, <1>4, <1>5, <1>6, <1>7, <1>8 DEF CountsInv

LEMMA CountsCover ==
    ASSUME CountsInv
    PROVE  ReportsCoverEffects
  <1>1. \A c \in Clicks : Landings(c) <= 1
    <2>1. TAKE c \in Clicks
    <2>2. /\ c \in Counters /\ attempts[c] \in Nat /\ Landings(c) \in Nat
          /\ Landings(c) <= attempts[c] /\ attempts[c] <= 1
      BY <2>1 DEF CountsInv, CountsTyped, CountedEffects, ClickedBehind, Counters, Effects, Landings, Clicks
    <2>3. QED
      BY <2>2
  <1>2. landed["write"] <= Cardinality(Targets(canary))
    BY DEF CountsInv, WrittenBehind
  <1>3. ASSUME report # Null, report.status # "preflight_failed", NEW c \in Counters
        PROVE  report.successes[c] <= Landings(c) /\ Landings(c) <= report.attempts[c]
    BY <1>3 DEF CountsInv, ReportedCounts, CountedEffects
  <1>4. QED
    BY <1>1, <1>2, <1>3 DEF ReportsCoverEffects

-----------------------------------------------------------------------------
(* The canaries: what they saw, and where they send the page. *)

AnyControls == {"none", "reviewed", "changed", "verification", "application"}
AnyEntries  == {"none", "reviewed", "changed"}

Pages ==
    [entries : AnyEntries, controls : AnyControls, captcha : BOOLEAN, auth : BOOLEAN,
     cookies : {"gone", "banner", "center", "odd_banner", "odd_center"},
     actions : {"reviewed", "changed"}, phone : {"none", "reviewed", "changed"},
     dom : Nat, held : SUBSET Targets(canary), tabs : {1, 2}]

FormsRead == [controls : AnyControls, entries : AnyEntries, dom : Nat]

(* A snapshot says of the page what the page showed, or it is the one of a  *)
(* page with a second tab.                                                  *)
Faithful(s) ==
    /\ s.controls \in AnyControls /\ s.captcha \in BOOLEAN /\ s.auth \in BOOLEAN
    /\ \/ s.state = RuntimeState(s)
       \/ s.controls = "none" /\ s.entries = "none" /\ ~s.captcha /\ ~s.auth /\ s.state = "unsupported"

Looks(s, i) == s[i].do \in {"look", "survey"}

(* The last look before step n. *)
LastLook(s, k, n) ==
    /\ k \in DOMAIN s /\ k < n /\ Looks(s, k)
    /\ \A m \in DOMAIN s : k < m /\ m < n => ~Looks(s, m)

(* Between two steps nothing is clicked or written. *)
Idle(s, k, n) == \A m \in DOMAIN s : k < m /\ m < n => ~Acts(s, m)

(* What the run has seen is what its last look saw, which passed the gates  *)
(* of that look, and is of this moment unless the run acted since.          *)
Sighted ==
    pc # 0 => \A k \in DOMAIN Course : LastLook(Course, k, pc) =>
        /\ Faithful(seen)
        /\ Course[k].do = "look" => \A g \in Course[k].gates : LookPasses(g, seen)
        /\ Idle(Course, k, pc) => seen.time = Done

SightsInv ==
    /\ page \in Pages
    /\ stage = "off" => form = Null \/ form \in FormsRead
    /\ stage # "off" => canary = "smartrecruiters"
    /\ Sighted /\ RouteFollowsLastLook

LEMMA DriftedPages ==
    ASSUME page \in Pages, NEW p \in Drifted(page)
    PROVE  p \in Pages
  <1>1. ControlKinds \subseteq AnyControls
    BY DEF ControlKinds, AnyControls
  <1>2. CASE p \in {[page EXCEPT !.entries = e] : e \in {"none", "reviewed", "changed"}}
    BY <1>2 DEF Pages, AnyEntries
  <1>3. CASE p \in {[page EXCEPT !.controls = c] : c \in ControlKinds}
    BY <1>1, <1>3 DEF Pages
  <1>4. CASE p \in {[page EXCEPT !.captcha = TRUE], [page EXCEPT !.auth = TRUE]}
    BY <1>4 DEF Pages
  <1>8. CASE p = [page EXCEPT !.dom = @ + 1]
    BY <1>8 DEF Pages
  <1>9. CASE p = [page EXCEPT !.tabs = 2]
    BY <1>9 DEF Pages
  <1>10. CASE p \in {[page EXCEPT !.actions = "changed"], [page EXCEPT !.phone = "changed"],
                     [page EXCEPT !.phone = "none"]}
    BY <1>10 DEF Pages
  <1>5. CASE p \in {[page EXCEPT !.cookies = c] : c \in {"gone", "banner", "odd_banner", "odd_center"}}
    BY <1>5 DEF Pages
  <1>6. CASE p \in {[page EXCEPT !.held = @ \ {t}] : t \in page.held}
    BY <1>6 DEF Pages
  <1>7. QED
    BY <1>2, <1>3, <1>4, <1>5, <1>6, <1>8, <1>9, <1>10 DEF Drifted

LEMMA ClickedPages ==
    ASSUME page \in Pages, NEW e, NEW p \in After(e)
    PROVE  p \in Pages
  <1>1. ControlKinds \subseteq AnyControls
    BY DEF ControlKinds, AnyControls
  <1> DEFINE Opens(c, h)    == [page EXCEPT !.entries = "none", !.controls = c, !.held = h]
             Continues(c, a) == [page EXCEPT !.controls = c, !.auth = a]
             shown           == IF canary = "verified_session" THEN ControlKinds ELSE {"reviewed"}
  <1>2. \/ p \in {[page EXCEPT !.cookies = "center"], [page EXCEPT !.cookies = "gone"], page}
        \/ p \in Applied \/ p \in Continued
    <2>1. CASE e = "preferences"
      BY <2>1, Zenon DEF After
    <2>2. CASE e \in {"save", "deny"}
      BY <2>2, Zenon DEF After
    <2>3. CASE e = "apply"
      BY <2>3, Zenon DEF After
    <2>4. CASE e = "continue"
      BY <2>4, Zenon DEF After
    <2>5. CASE e \notin {"preferences", "save", "deny", "apply", "continue"}
      BY <2>5, Zenon DEF After
    <2>6. QED
      BY <2>1, <2>2, <2>3, <2>4, <2>5
  <1>3. \A c \in AnyControls, h \in SUBSET Targets(canary) : Opens(c, h) \in Pages
    BY DEF Pages, AnyEntries
  <1>4. \A c \in AnyControls, a \in BOOLEAN : Continues(c, a) \in Pages
    BY DEF Pages
  <1>5. shown \subseteq AnyControls /\ {"none", "reviewed", "changed"} \subseteq AnyControls
    BY <1>1 DEF AnyControls
  <1>6. CASE p \in {[page EXCEPT !.cookies = "center"], [page EXCEPT !.cookies = "gone"], page}
    BY <1>6 DEF Pages
  <1>a. Applied = {Opens(c, h) : c \in shown, h \in {{}, Targets(canary)}}
    BY DEF Applied
  <1>b. Continued = {Continues(c, a) : c \in {"none", "reviewed", "changed"}, a \in BOOLEAN}
    BY DEF Continued
  <1> HIDE DEF Opens, Continues, shown
  <1>7. CASE p \in Applied
    BY <1>3, <1>5, <1>7, <1>a, SMT
  <1>8. CASE p \in Continued
    BY <1>4, <1>5, <1>8, <1>b, SMT
  <1>9. QED
    BY <1>2, <1>6, <1>7, <1>8

LEMMA KeptPages ==
    ASSUME page \in Pages, CountsTyped, pc # 0, step.do = "fill", NEW p \in Kept
    PROVE  p \in Pages
  <1>1. step.on \in Targets(canary)
    BY CourseIsSound DEF Targets, step, Course
  <1>2. QED
    BY <1>1 DEF Kept, Pages

(* Four plans look once more after all they did. *)
ClosingLook(s) == \E k \in DOMAIN s : LastLook(s, k, Len(s)) /\ Idle(s, k, Len(s))

LEMMA ShortPlansClose == ClosingLook(NavigationPlan) /\ ClosingLook(LiveInspectionPlan)
  <1>1. ClosingLook(NavigationPlan)
    <2>1. DOMAIN NavigationPlan = 1..4 /\ Len(NavigationPlan) = 4
      BY DEF NavigationPlan
    <2>2. LastLook(NavigationPlan, 3, 4) /\ Idle(NavigationPlan, 3, 4)
      BY DEF NavigationPlan, Look, Click, Survey, End, Step, LastLook, Idle, Looks, Acts
    <2>3. QED
      BY <2>1, <2>2 DEF ClosingLook
  <1>2. ClosingLook(LiveInspectionPlan)
    <2>1. DOMAIN LiveInspectionPlan = 1..2 /\ Len(LiveInspectionPlan) = 2
      BY DEF LiveInspectionPlan
    <2>2. LastLook(LiveInspectionPlan, 1, 2) /\ Idle(LiveInspectionPlan, 1, 2)
      BY DEF LiveInspectionPlan, Look, End, Step, LastLook, Idle, Looks, Acts
    <2>3. QED
      BY <2>1, <2>2 DEF ClosingLook
  <1>3. QED
    BY <1>1, <1>2

(* The look of a session at the form it reached. *)
LEMMA SessionLooksAtForm ==
    /\ 5 \in DOMAIN VerifiedSessionPlan /\ 3 \in DOMAIN VerifiedSessionPlan /\ Len(VerifiedSessionPlan) = 7
    /\ LastLook(VerifiedSessionPlan, 5, 7) /\ Idle(VerifiedSessionPlan, 5, 7)
    /\ VerifiedSessionPlan[5].do = "look"
    /\ VerifiedSessionPlan[5].gates = {"no_code", "no_identity", "controls"}
    /\ VerifiedSessionPlan[3].do = "click" /\ VerifiedSessionPlan[3].on = "apply"
  <1>1. DOMAIN VerifiedSessionPlan = 1..7 /\ Len(VerifiedSessionPlan) = 7
    BY DEF VerifiedSessionPlan
  <1>2. LastLook(VerifiedSessionPlan, 5, 7) /\ Idle(VerifiedSessionPlan, 5, 7)
    BY DEF VerifiedSessionPlan, Look, Glance, Click, ListButtons, End, Step, LastLook, Idle, Looks, Acts
  <1>3. /\ VerifiedSessionPlan[5].do = "look"
        /\ VerifiedSessionPlan[5].gates = {"no_code", "no_identity", "controls"}
        /\ VerifiedSessionPlan[3].do = "click" /\ VerifiedSessionPlan[3].on = "apply"
    BY DEF VerifiedSessionPlan, Look, Glance, Click, ListButtons, End, Step
  <1>4. QED
    BY <1>1, <1>2, <1>3

LEMMA ClosingTail ==
    ASSUME NEW s, NEW t, Listed(s), Listed(t), ClosingLook(t)
    PROVE  ClosingLook(s \o t)
  <1> DEFINE u == s \o t
  <1>1. /\ Len(u) = Len(s) + Len(t) /\ Len(s) \in Nat /\ Len(t) \in Nat
        /\ DOMAIN u = 1..(Len(s) + Len(t)) /\ DOMAIN s = 1..Len(s) /\ DOMAIN t = 1..Len(t)
        /\ \A i \in DOMAIN t : u[Len(s) + i] = t[i] /\ Len(s) + i \in DOMAIN u
        /\ \A i \in DOMAIN u : i \in DOMAIN s \/ (i - Len(s) \in DOMAIN t /\ u[i] = t[i - Len(s)])
    BY Concatenation
  <1> HIDE DEF u
  <1>2. PICK k \in DOMAIN t : LastLook(t, k, Len(t)) /\ Idle(t, k, Len(t))
    BY DEF ClosingLook
  <1> DEFINE j == Len(s) + k
  <1>3. j \in DOMAIN u /\ j < Len(u) /\ Looks(u, j)
    BY <1>1, <1>2 DEF LastLook, Looks
  <1>4. ASSUME NEW m \in DOMAIN u, j < m, m < Len(u)
        PROVE  ~Looks(u, m) /\ ~Acts(u, m)
    <2>1. m - Len(s) \in DOMAIN t /\ u[m] = t[m - Len(s)] /\ k < m - Len(s) /\ m - Len(s) < Len(t)
      BY <1>1, <1>4
    <2>2. ~Looks(t, m - Len(s)) /\ ~Acts(t, m - Len(s))
      BY <1>2, <2>1 DEF LastLook, Idle
    <2>3. QED
      BY <2>1, <2>2 DEF Looks, Acts
  <1>5. ClosingLook(u)
    BY <1>3, <1>4 DEF ClosingLook, LastLook, Idle
  <1>6. QED
    BY <1>5 DEF u

LEMMA ContinuePlanCloses == ClosingLook(ContinuePlan)
  <1> DEFINE e == ContinueEntrance
             l == << Look(FormGates) >>
             w == IdentityWrites({"located", "filled"})
             t == << Look({"fill_surface"}), Glance({"actions"}, FALSE), Click("continue", {"label"}, FALSE),
              Glance({"one_tab"}, FALSE), Look({}), End("continued_inspected") >>
  <1>1. Listed(e) /\ Listed(l) /\ Listed(w) /\ Listed(t)
    BY ContinueEntrancePiece, LookPiece, IdentityPiece, ContinueTailPiece DEF Piece
  <1>2. ClosingLook(t)
    <2>1. DOMAIN t = 1..6 /\ Len(t) = 6
      OBVIOUS
    <2>2. LastLook(t, 5, 6) /\ Idle(t, 5, 6)
      BY DEF Look, Glance, Click, End, Step, LastLook, Idle, Looks, Acts
    <2> HIDE DEF t
    <2>3. QED
      BY <2>1, <2>2 DEF ClosingLook
  <1> HIDE DEF e, l, w, t
  <1>3. Listed(e \o l)
    BY <1>1, Concatenation
  <1>4. Listed((e \o l) \o w)
    BY <1>1, <1>3, Concatenation
  <1>5. ClosingLook(((e \o l) \o w) \o t)
    BY <1>1, <1>2, <1>4, ClosingTail
  <1>6. QED
    BY <1>5 DEF ContinuePlan, e, l, w, t

-----------------------------------------------------------------------------

LEMMA PagesMove ==
    ASSUME Next, page \in Pages, CountsTyped
    PROVE  page' \in Pages'
  <1>1. canary' = canary
    BY Movements DEF Moved
  <1>2. Pages' = Pages
    BY <1>1 DEF Pages
  <1> USE DEF At, Steady, Unaimed, SameRun, Untouched
  <1>3. CASE Drift
    BY <1>2, <1>3, DriftedPages DEF Drift
  <1>4. CASE ClickStep
    <2>1. page' = page \/ \E e : page' \in After(e)
      BY <1>4 DEF ClickStep, Landed
    <2>2. QED
      BY <1>2, <2>1, ClickedPages
  <1>5. CASE Fill
    <2>1. page' = page \/ page' \in Kept
      BY <1>5 DEF Fill, Landed
    <2>2. pc # 0 /\ step.do = "fill"
      BY <1>5 DEF Fill
    <2>3. QED
      BY <1>2, <2>1, <2>2, KeptPages
  <1>6. CASE ~Drift /\ ~ClickStep /\ ~Fill
    <2>1. page' = page
      BY <1>6 DEF Next, Exception, ReadForm, LookStep, GlanceStep, SurveyStep, BannerStep,
         Unresolved, Resolved, Aim, NotLocated, AlreadyHeld, ReadBack, Finish
    <2>2. QED
      BY <1>2, <2>1
  <1>7. QED
    BY <1>3, <1>4, <1>5, <1>6

LEMMA FormsMove ==
    ASSUME Next, page \in Pages, form = Null \/ form \in FormsRead
    PROVE  form' = Null \/ form' \in FormsRead
  <1> USE DEF At, Steady, Unaimed, SameRun, Untouched
  <1>1. CASE ReadForm
    <2>1. PICK c \in {page.controls, "none"} :
             form' = [controls |-> c, entries |-> page.entries, dom |-> page.dom]
      BY <1>1 DEF ReadForm, FormRead
    <2>2. c \in AnyControls /\ page.entries \in AnyEntries /\ page.dom \in Nat
      BY DEF Pages, AnyControls
    <2>3. QED
      BY <2>1, <2>2 DEF FormsRead
  <1>2. CASE ~ReadForm
    <2>1. form' = form \/ form' = Null
      BY <1>2 DEF Next, Drift, Exception, LookStep, GlanceStep, SurveyStep, BannerStep,
         Unresolved, Resolved, Aim, ClickStep, NotLocated, AlreadyHeld, Fill, ReadBack, Finish
    <2>2. QED
      BY <2>1
  <1>3. QED
    BY <1>1, <1>2

LEMMA SnapshotsAreFaithful ==
    ASSUME page \in Pages, NEW f \in FormsRead
    PROVE  Faithful(Snapshot(Read(f))) /\ Snapshot(Read(f)).time = Done
  <1> DEFINE p == Read(f)
  <1>1. /\ p.controls = f.controls /\ p.entries = f.entries /\ p.captcha = page.captcha /\ p.auth = page.auth
        /\ f.controls \in AnyControls /\ page.captcha \in BOOLEAN /\ page.auth \in BOOLEAN
    BY DEF Read, Pages, FormsRead
  <1> HIDE DEF p
  <1> DEFINE s == Snapshot(p)
  <1>2. /\ s.controls = p.controls /\ s.entries = p.entries /\ s.captcha = p.captcha /\ s.auth = p.auth
        /\ s.state = RuntimeState(p) /\ s.time = Done
    BY DEF Snapshot
  <1> HIDE DEF s
  <1>3. RuntimeState(s) = RuntimeState(p)
    BY <1>2 DEF RuntimeState
  <1>4. Faithful(s) /\ s.time = Done
    BY <1>1, <1>2, <1>3 DEF Faithful
  <1>5. QED
    BY <1>4 DEF s, p

LEMMA NotInspectedIsFaithful == Faithful(NotInspected) /\ NotInspected.time = Done
  BY DEF Faithful, NotInspected, AnyControls

(* A run either sees nothing new, or it looks and goes on. *)
Unseeing ==
    /\ seen' = seen
    /\ pc' \in {0, pc} \/ step.do \notin {"look", "survey"}
    /\ landed' = landed \/ pc' = 0 \/ (pc' = pc + 1 /\ step.do \in {"click", "fill"})

Seeing ==
    /\ step.do \in {"look", "survey"} /\ pc' = pc + 1 /\ landed' = landed
    /\ Faithful(seen') /\ seen'.time = Done
    /\ step.do = "look" => \A g \in step.gates : LookPasses(g, seen')

LEMMA Sights ==
    ASSUME Next, page \in Pages, form = Null \/ form \in FormsRead
    PROVE  Unseeing \/ Seeing \/ pc' = 0
  <1> USE DEF At, Steady, Unaimed, SameRun, Untouched, Goto, Blocked, Escapes, Return
  <1>1. CASE Drift \/ Exception \/ ReadForm
    BY <1>1 DEF Drift, Exception, ReadForm, Unseeing
  <1>2. CASE LookStep
    <2>1. /\ step.do = "look" /\ form # Null /\ seen' = Snapshot(Read(form)) /\ landed' = landed
          /\ pc' = 0 \/ (pc' = pc + 1 /\ \A g \in step.gates : LookPasses(g, seen'))
      BY <1>2 DEF LookStep
    <2>2. Faithful(seen') /\ seen'.time = Done
      BY <2>1, SnapshotsAreFaithful
    <2>3. QED
      BY <2>1, <2>2 DEF Seeing
  <1>3. CASE SurveyStep
    <2>1. /\ step.do = "survey" /\ pc' = pc + 1 /\ landed' = landed
          /\ \/ form # Null /\ seen' = Snapshot(Read(form))
             \/ seen' = NotInspected
      BY <1>3 DEF SurveyStep
    <2>2. Faithful(seen') /\ seen'.time = Done
      BY <2>1, SnapshotsAreFaithful, NotInspectedIsFaithful
    <2>3. QED
      BY <2>1, <2>2 DEF Seeing
  <1>4. CASE GlanceStep \/ BannerStep \/ Unresolved \/ Resolved \/ NotLocated \/ AlreadyHeld \/ ReadBack
    BY <1>4 DEF GlanceStep, BannerStep, Unresolved, Resolved, Aim, NotLocated, AlreadyHeld, ReadBack, Unseeing
  <1>5. CASE ClickStep \/ Fill
    BY <1>5 DEF ClickStep, Fill, Unseeing
  <1>6. CASE Finish
    BY <1>6 DEF Finish
  <1>7. QED
    BY <1>1, <1>2, <1>3, <1>4, <1>5, <1>6 DEF Next

LEMMA SightedPreserved ==
    ASSUME Sighted, CountsTyped, Moved, Unseeing \/ Seeing \/ pc' = 0
    PROVE  Sighted'
  <1>1. /\ Course' = Course /\ pc \in DOMAIN Course /\ pc \in Nat /\ step = Course[pc]
        /\ DOMAIN Course \subseteq Nat /\ pc # 0
    BY Forward, CourseIsSound DEF step, Course, Sound, Moved
  <1>2. CASE pc' = 0
    BY <1>2 DEF Sighted
  <1>3. CASE pc' # 0 /\ Unseeing
    <2>1. pc' \in Nat /\ pc <= pc' /\ seen' = seen
      BY <1>3, Forward DEF Unseeing
    <2>2. SUFFICES ASSUME NEW k \in DOMAIN Course, LastLook(Course, k, pc')
                   PROVE  /\ Faithful(seen)
                          /\ Course[k].do = "look" => \A g \in Course[k].gates : LookPasses(g, seen)
                          /\ Idle(Course, k, pc') => seen.time = Done'
      BY <1>1, <2>1 DEF Sighted
    <2>3. k < pc
      <3>1. SUFFICES ASSUME pc <= k PROVE FALSE
        BY <1>1
      <3>2. pc <= k /\ k < pc' /\ Looks(Course, k)
        BY <2>2, <3>1 DEF LastLook
      <3>3. pc' = pc + 1 /\ k = pc
        BY <1>3, <3>2, Forward DEF Looks
      <3>4. QED
        BY <1>1, <1>3, <3>2, <3>3 DEF Unseeing, Looks
    <2>4. LastLook(Course, k, pc)
      BY <1>1, <2>1, <2>2, <2>3 DEF LastLook
    <2>5. Idle(Course, k, pc') => Idle(Course, k, pc)
      BY <1>1, <2>1 DEF Idle
    <2>6. Idle(Course, k, pc') => Done' = Done
      <3>1. HAVE Idle(Course, k, pc')
      <3>2. CASE pc' = pc
        BY <3>2, <1>3, <1>1 DEF Unseeing, Done
      <3>3. CASE pc' # pc
        <4>1. ~Acts(Course, pc)
          BY <1>1, <2>1, <2>3, <3>1, <3>3 DEF Idle
        <4>2. landed' = landed
          BY <1>1, <1>3, <4>1 DEF Unseeing, Acts
        <4>3. QED
          BY <4>2 DEF Done
      <3>4. QED
        BY <3>2, <3>3
    <2>7. QED
      BY <1>1, <2>4, <2>5, <2>6 DEF Sighted
  <1>4. CASE Seeing
    <2>1. SUFFICES ASSUME NEW k \in DOMAIN Course, LastLook(Course, k, pc')
                   PROVE  /\ Faithful(seen')
                          /\ Course[k].do = "look" => \A g \in Course[k].gates : LookPasses(g, seen')
                          /\ Idle(Course, k, pc') => seen'.time = Done'
      BY <1>1 DEF Sighted
    <2>2. k = pc
      BY <1>1, <1>4, <2>1 DEF Seeing, LastLook, Looks
    <2>3. Done' = Done
      BY <1>4 DEF Seeing, Done
    <2>4. QED
      BY <1>1, <1>4, <2>2, <2>3 DEF Seeing
  <1>5. QED
    BY <1>2, <1>3, <1>4

LEMMA ReportsMove ==
    ASSUME Next
    PROVE  \/ report' = report \/ report'.status = "blocked" \/ Finish
           \/ canary = "profile_v2" /\ report' = PreflightFailed
  BY DEF Next, Drift, Exception, ReadForm, LookStep, GlanceStep, SurveyStep, BannerStep, Unresolved, Resolved, Aim,
     ClickStep, NotLocated, AlreadyHeld, Fill, ReadBack, Goto, Blocked, Escapes, Return

(* Where a run ends that looked once more, its verdict is of that look. *)
LEMMA RoutesFollow ==
    ASSUME NEW s, Faithful(s)
    PROVE  /\ (NextRoute(s) = "human_handoff") = (s.captcha \/ s.auth)
           /\ NextRoute(s) = "manifest_review_candidate" => s.state = "inspected"
           /\ NextRoute(s) # "navigation_review_candidate" /\ NextRoute(s) # "none"
           /\ (LiveRoute(s) = "human_handoff") = (s.captcha \/ s.state = "auth_boundary")
           /\ LiveRoute(s) = "manifest_review_candidate" => s.state = "inspected"
           /\ LiveRoute(s) = "navigation_review_candidate" =>
                 s.state = "application_entry_observed" /\ s.controls = "none"
           /\ LiveRoute(s) # "none"
  <1>1. s.captcha \in BOOLEAN /\ s.auth \in BOOLEAN
    BY DEF Faithful
  <1>2. \/ s.state = RuntimeState(s)
        \/ s.controls = "none" /\ s.entries = "none" /\ ~s.captcha /\ ~s.auth /\ s.state = "unsupported"
    BY DEF Faithful
  <1>3. /\ (NextRoute(s) = "human_handoff") = (s.captcha \/ s.auth)
        /\ NextRoute(s) = "manifest_review_candidate" => s.state = "inspected"
        /\ NextRoute(s) # "navigation_review_candidate" /\ NextRoute(s) # "none"
    BY <1>1, <1>2 DEF NextRoute, RuntimeState
  <1>4. /\ (LiveRoute(s) = "human_handoff") = (s.captcha \/ s.state = "auth_boundary")
        /\ LiveRoute(s) = "manifest_review_candidate" => s.state = "inspected"
        /\ LiveRoute(s) = "navigation_review_candidate" =>
              s.state = "application_entry_observed" /\ s.controls = "none"
        /\ LiveRoute(s) # "none"
    BY <1>1, <1>2 DEF LiveRoute, RuntimeState
  <1>5. QED
    BY <1>3, <1>4

LEMMA FinishPreserves ==
    ASSUME CountsInv, Sighted, Finish
    PROVE  RouteFollowsLastLook'
  <1>1. /\ pc # 0 /\ step.do = "end" /\ canary' = canary /\ seen' = seen /\ Done' = Done
        /\ successes' = successes /\ report'.route = Route
    BY DEF Finish, At, Counted, Untouched, Steady, Unaimed, SameRun, Return, Done
  <1>2. /\ pc = Len(Course) /\ pc \in DOMAIN Course /\ pc \in Nat /\ CountsTyped
    BY <1>1, CourseIsSound DEF CountsInv, Sound, step, Course
  <1>3. ASSUME ClosingLook(Course)
        PROVE  Faithful(seen) /\ seen.time = Done
    BY <1>1, <1>2, <1>3 DEF ClosingLook, Sighted
  <1>4. CASE canary \in {"navigation", "continue"}
    <2>1. ClosingLook(Course)
      BY <1>4, ShortPlansClose, ContinuePlanCloses DEF Course, Plan
    <2>2. Route = NextRoute(seen)
      BY <1>4 DEF Route
    <2>3. (report'.route = "human_handoff") = BoundarySeen'
      BY <1>1, <1>3, <1>4, <2>1, <2>2, RoutesFollow DEF BoundarySeen
    <2>4. QED
      BY <1>1, <1>3, <1>4, <2>1, <2>2, <2>3, RoutesFollow DEF RouteFollowsLastLook
  <1>5. CASE canary = "live_inspection"
    <2>1. ClosingLook(Course)
      BY <1>5, ShortPlansClose DEF Course, Plan
    <2>2. Route = LiveRoute(seen)
      BY <1>5 DEF Route
    <2>3. (report'.route = "human_handoff") = BoundarySeen'
      BY <1>1, <1>3, <1>5, <2>1, <2>2, RoutesFollow DEF BoundarySeen
    <2>4. QED
      BY <1>1, <1>3, <1>5, <2>1, <2>2, <2>3, RoutesFollow DEF RouteFollowsLastLook
  <1>6. CASE canary = "verified_session"
    <2>1. Course = VerifiedSessionPlan
      BY <1>6 DEF Course, Plan
    <2>2. pc = 7
      BY <1>2, <2>1, SessionLooksAtForm
    <2>3. /\ Faithful(seen) /\ seen.time = Done
          /\ \A g \in {"no_code", "no_identity", "controls"} : LookPasses(g, seen)
      BY <1>1, <2>1, <2>2, SessionLooksAtForm DEF Sighted
    <2>4. seen.controls = "application"
      <3>1. seen.controls \in AnyControls
        BY <2>3 DEF Faithful
      <3>2. seen.controls # "verification"
        BY <2>3 DEF LookPasses
      <3>3. seen.controls \notin {"reviewed", "changed"}
        BY <2>3 DEF LookPasses
      <3>4. seen.controls # "none"
        BY <2>3 DEF LookPasses
      <3>5. QED
        BY <3>1, <3>2, <3>3, <3>4 DEF AnyControls
    <2>5. successes["apply"] = 1
      BY <1>1, <2>1, <2>2, SessionLooksAtForm DEF CountsInv, BehindClicked
    <2>6. Route = "none"
      BY <1>6 DEF Route
    <2>7. QED
      BY <1>1, <1>6, <2>3, <2>4, <2>5, <2>6 DEF RouteFollowsLastLook
  <1>7. CASE canary \notin {"navigation", "continue", "live_inspection", "verified_session"}
    <2>1. Route = "none"
      BY <1>7 DEF Route
    <2>2. QED
      BY <1>1, <1>7, <2>1 DEF RouteFollowsLastLook
  <1>8. QED
    BY <1>4, <1>5, <1>6, <1>7

LEMMA CanarySights ==
    ASSUME CountsInv, SightsInv, Next, stage = "off", UNCHANGED inspector
    PROVE  SightsInv'
  <1>1. /\ page \in Pages /\ (form = Null \/ form \in FormsRead) /\ Sighted /\ CountsTyped /\ Moved
        /\ stage' = "off" /\ pc # 0 /\ report = Null
    BY Movements DEF CountsInv, ReportedCounts, SightsInv, Moved, inspector
  <1>2. page' \in Pages' /\ (form' = Null \/ form' \in FormsRead)
    BY <1>1, PagesMove, FormsMove
  <1>3. Sighted'
    BY <1>1, Sights, SightedPreserved
  <1>4. RouteFollowsLastLook'
    <2>1. CASE Finish
      BY <1>1, <2>1, FinishPreserves
    <2>2. CASE ~Finish
      <3>1. report' = PreflightFailed /\ canary' = "profile_v2"
               => report'.route = "none" /\ canary' # "verified_session"
        BY DEF PreflightFailed
      <3>2. QED
        BY <1>1, <2>2, <3>1, ReportsMove DEF RouteFollowsLastLook, Moved
    <2>3. QED
      BY <2>1, <2>2
  <1>5. QED
    BY <1>1, <1>2, <1>3, <1>4 DEF SightsInv, FormsRead

-----------------------------------------------------------------------------
(* The inspection. *)

Stages == {"off", "look", "pre", "pre_body", "select", "fence", "follow", "settle", "unfence",
           "body", "done"}

FormReading ==
    [place : {"posting", "expired", "application", "elsewhere"}, controls : BOOLEAN,
     password : BOOLEAN, complete : BOOLEAN, challenged : BOOLEAN]

LiveTyped ==
    /\ stage \in Stages /\ fence \in BOOLEAN
    /\ stage # "off" => pc = 0 /\ posting \in Posting
    /\ stage \in {"pre_body", "body"} => form \in FormReading
    /\ stage \notin {"off", "done"} => report = Null

FenceFollows ==
    /\ stage \in {"follow", "settle", "unfence"} => fence
    /\ fence => stage \in {"follow", "settle", "unfence", "done"}

DenialsNoted ==
    /\ denied \subseteq {"follow", "settle", "unfence"}
    /\ stage \in {"pre", "pre_body", "select", "fence"} => denied = {}
    /\ stage \in {"unfence", "look", "body"} /\ entry \notin NotFollowed =>
          denied \subseteq {"unfence"}

LInv == LiveTyped /\ FenceFollows /\ DenialsNoted /\ ManifestNeedsCleanEntry

-----------------------------------------------------------------------------

LEMMA LiveInitInv == LiveInit => LInv
  <1> SUFFICES ASSUME LiveInit PROVE LInv
    OBVIOUS
  <1>1. fence = FALSE /\ denied = {} /\ report = Null
    BY DEF LiveInit, Init, Fresh
  <1>2. LiveTyped
    BY <1>1 DEF LiveInit, LiveTyped, Stages
  <1>3. FenceFollows /\ DenialsNoted /\ ManifestNeedsCleanEntry
    BY <1>1 DEF LiveInit, FenceFollows, DenialsNoted, ManifestNeedsCleanEntry
  <1>4. QED
    BY <1>2, <1>3 DEF LInv

(* While an inspection runs, no canary does anything. *)
LEMMA CanariesRest == pc = 0 => ~Next
  BY DEF Next, Drift, Exception, ReadForm, LookStep, GlanceStep, SurveyStep, BannerStep,
     Unresolved, Resolved, Aim, ClickStep, NotLocated, AlreadyHeld, Fill, ReadBack, Finish, At

(* A canary at work is no inspection. *)
LEMMA CanaryPreserves ==
    ASSUME LInv, Next, UNCHANGED inspector
    PROVE  LInv'
  <1>1. stage = "off"
    BY CanariesRest DEF LInv, LiveTyped
  <1>2. LiveTyped'
    BY <1>1 DEF LInv, LiveTyped, inspector
  <1>3. FenceFollows' /\ DenialsNoted' /\ ManifestNeedsCleanEntry'
    BY <1>1 DEF LInv, FenceFollows, DenialsNoted, ManifestNeedsCleanEntry, inspector
  <1>4. QED
    BY <1>2, <1>3 DEF LInv

LEMMA AlteredIsPosting ==
    ASSUME posting \in Posting, NEW p \in Altered
    PROVE  p \in Posting /\ (p.place = "elsewhere" => posting.place = "elsewhere")
  BY DEF Posting, Altered

LEMMA OpenedIsPosting == Opened \subseteq Posting
  BY DEF Posting, Opened

LEMMA WholeFormIsReading ==
    ASSUME posting \in Posting
    PROVE  WholeForm \in FormReading
  <1>1. /\ posting.place \in {"posting", "expired", "application", "elsewhere"}
        /\ posting.controls \in BOOLEAN /\ posting.password \in BOOLEAN
    BY DEF Posting
  <1>2. (posting.challenge = "frame") \in BOOLEAN
    OBVIOUS
  <1>3. QED
    BY <1>1, <1>2, Zenon DEF WholeForm, FormReading

LEMMA ReadingsAreReadings ==
    ASSUME posting \in Posting, NEW f \in Readings
    PROVE  f \in FormReading
  <1>1. WholeForm \in FormReading
    BY WholeFormIsReading
  <1>2. posting.controls \in BOOLEAN /\ posting.password \in BOOLEAN
    BY DEF Posting
  <1>3. CASE f = WholeForm
    BY <1>1, <1>3
  <1>4. CASE f # WholeForm
    <2>1. PICK c \in {posting.controls, FALSE}, pw \in {posting.password, FALSE} :
             f = [WholeForm EXCEPT !.complete = FALSE, !.controls = c, !.password = pw]
      BY <1>4 DEF Readings
    <2>2. c \in BOOLEAN /\ pw \in BOOLEAN
      BY <1>2
    <2>3. f = [place |-> WholeForm.place, controls |-> c, password |-> pw, complete |-> FALSE,
               challenged |-> WholeForm.challenged]
      BY <2>1, <1>1 DEF FormReading
    <2>4. /\ WholeForm.place \in {"posting", "expired", "application", "elsewhere"}
          /\ WholeForm.challenged \in BOOLEAN
      BY <1>1 DEF FormReading
    <2>5. QED
      BY <2>2, <2>3, <2>4, Zenon DEF FormReading
  <1>5. QED
    BY <1>3, <1>4

(* The page changes, asks or leaves. *)
LEMMA PagePreserves ==
    ASSUME LInv, PageAlters \/ PageRequests
    PROVE  LInv'
  <1>1. /\ stage' = stage /\ stage \notin {"off", "done"} /\ stage \in Stages
        /\ pc' = pc /\ form' = form /\ report' = report /\ entry' = entry /\ fence' = fence
    BY DEF PageAlters, PageRequests, Inspecting, LInv, LiveTyped
  <1>2. posting \in Posting
    BY <1>1 DEF LInv, LiveTyped
  <1>3. posting' \in Posting
    <2>1. CASE PageAlters
      BY <2>1, <1>2, AlteredIsPosting DEF PageAlters
    <2>2. CASE PageRequests
      BY <2>2, <1>2 DEF PageRequests, Posting
    <2>3. QED
      BY <2>1, <2>2
  <1>4. denied' = denied \/ (fence /\ denied' = denied \cup {stage})
    BY DEF PageAlters, PageRequests
  <1>5. LiveTyped'
    BY <1>1, <1>3 DEF LInv, LiveTyped
  <1>6. FenceFollows'
    BY <1>1 DEF LInv, FenceFollows
  <1>7. DenialsNoted'
    BY <1>1, <1>4 DEF LInv, FenceFollows, DenialsNoted
  <1>8. ManifestNeedsCleanEntry'
    BY <1>1 DEF ManifestNeedsCleanEntry
  <1>9. QED
    BY <1>5, <1>6, <1>7, <1>8 DEF LInv

(* Up to the selection nothing is fenced, so nothing was denied. *)
LEMMA BeforeEntryPreserves ==
    ASSUME LInv, PreForm \/ PreBody \/ SelectEntry
    PROVE  LInv'
  <1> USE DEF Elsewhere, Looking, Touchless, Goal
  <1>1. /\ stage \in {"pre", "pre_body", "select"} /\ stage' \in {"pre_body", "select", "look", "fence"}
        /\ pc' = pc /\ posting' = posting /\ report' = report /\ fence' = fence /\ denied' = denied
    BY DEF PreForm, PreBody, SelectEntry
  <1>2. posting \in Posting /\ denied = {} /\ ~fence /\ fence \in BOOLEAN
    BY <1>1 DEF LInv, LiveTyped, DenialsNoted, FenceFollows
  <1>3. stage' = "pre_body" => form' \in FormReading
    BY <1>1, <1>2, WholeFormIsReading DEF PreForm, PreBody, SelectEntry
  <1>4. LiveTyped'
    BY <1>1, <1>2, <1>3 DEF LInv, LiveTyped, Stages
  <1>5. FenceFollows' /\ DenialsNoted' /\ ManifestNeedsCleanEntry'
    BY <1>1, <1>2 DEF FenceFollows, DenialsNoted, ManifestNeedsCleanEntry
  <1>6. QED
    BY <1>4, <1>5 DEF LInv

(* From the installation of the fence to its removal. *)
LEMMA EntryPreserves ==
    ASSUME LInv, InstallFence \/ EntryGone \/ Follow \/ Settle \/ Unfence
    PROVE  LInv'
  <1> USE DEF Elsewhere, Looking, Touchless, Goal
  <1>1. /\ stage \in {"fence", "follow", "settle", "unfence"}
        /\ stage' \in {"follow", "settle", "unfence", "look"}
        /\ pc' = pc /\ report' = report /\ denied' = denied
        /\ stage = "unfence" => fence' = FALSE
        /\ stage # "unfence" => fence' = TRUE
    <2>1. fence \in BOOLEAN /\ (stage \in {"follow", "settle", "unfence"} => fence)
      BY DEF LInv, LiveTyped, FenceFollows
    <2>2. QED
      BY <2>1 DEF InstallFence, EntryGone, Follow, Settle, Unfence
  <1>2. posting \in Posting
    BY <1>1 DEF LInv, LiveTyped
  <1>3. posting' \in Posting
    BY <1>2, OpenedIsPosting DEF InstallFence, EntryGone, Follow, TakeEffect, Settle, Unfence
  <1>4. LiveTyped'
    BY <1>1, <1>3 DEF LInv, LiveTyped, Stages
  <1>5. stage' = "look" <=> stage = "unfence"
    BY DEF InstallFence, EntryGone, Follow, Settle, Unfence
  <1>6. FenceFollows'
    <2>1. \/ stage' = "look" /\ fence' = FALSE
          \/ stage' \in {"follow", "settle", "unfence"} /\ fence' = TRUE
      BY <1>1, <1>5
    <2>2. QED
      BY <2>1 DEF FenceFollows
  <1>7. DenialsNoted'
    <2>1. denied' \subseteq {"follow", "settle", "unfence"}
      BY <1>1 DEF LInv, DenialsNoted
    <2>2. stage' \in {"unfence", "look", "body"} /\ entry' \notin NotFollowed =>
             denied' \subseteq {"unfence"}
      BY <1>1 DEF LInv, DenialsNoted, InstallFence, EntryGone, Follow, Settle, Unfence,
         Verdict, NotFollowed
    <2>3. QED
      BY <2>1, <2>2, <1>1 DEF DenialsNoted
  <1>8. ManifestNeedsCleanEntry'
    BY <1>1 DEF ManifestNeedsCleanEntry
  <1>9. QED
    BY <1>4, <1>6, <1>7, <1>8 DEF LInv

LEMMA ReadPostingPreserves ==
    ASSUME LInv, ReadPosting
    PROVE  LInv'
  <1> USE DEF Elsewhere, Looking, Touchless, Goal
  <1>1. /\ stage = "look" /\ stage' = "body" /\ form' \in Readings
        /\ UNCHANGED <<pc, posting, report, fence, denied, entry>>
    BY DEF ReadPosting
  <1>2. form' \in FormReading
    BY <1>1, ReadingsAreReadings DEF LInv, LiveTyped
  <1>3. LiveTyped'
    BY <1>1, <1>2 DEF LInv, LiveTyped, Stages
  <1>4. FenceFollows' /\ DenialsNoted' /\ ManifestNeedsCleanEntry'
    BY <1>1 DEF LInv, FenceFollows, DenialsNoted, ManifestNeedsCleanEntry
  <1>5. QED
    BY <1>3, <1>4 DEF LInv

(* A manifest review is proposed only of what showed when everything could  *)
(* be read and the entry, if one was followed, was not a failure.           *)
LEMMA JudgePreserves ==
    ASSUME LInv, Judge
    PROVE  LInv'
  <1> USE DEF Elsewhere, Touchless, Goal
  <1> DEFINE captcha == form.challenged \/ posting.challenge = "text"
  <1>1. /\ stage = "body" /\ stage' = "done"
        /\ UNCHANGED <<pc, posting, fence, denied, entry>>
        /\ seen'.complete = form.complete /\ seen'.controls = form.controls
        /\ report'.route = PostingRoute(Reported(captcha), captcha)
    BY DEF Judge
  <1>2. form \in FormReading
    BY <1>1 DEF LInv, LiveTyped
  <1>3. report'.route = "manifest_review_candidate" =>
           Reported(captcha) = "inspected" /\ ~captcha
    <2> DEFINE state == Reported(captcha)
    <2>1. report'.route = PostingRoute(state, captcha) /\ captcha \in BOOLEAN
      BY <1>1, <1>2 DEF FormReading
    <2> HIDE DEF state, captcha
    <2>2. report'.route = "manifest_review_candidate" => state = "inspected" /\ ~captcha
      BY <2>1 DEF PostingRoute
    <2>3. QED
      BY <2>2 DEF state
  <1>4. ~captcha /\ Reported(captcha) = "inspected" =>
           form.complete /\ entry \notin NotFollowed /\ DiscoveryState(form) = "inspected"
    BY <1>2 DEF Reported, FormReading
  <1>5. DiscoveryState(form) = "inspected" => form.controls
    BY <1>2 DEF DiscoveryState, FormReading
  <1>6. ManifestNeedsCleanEntry'
    BY <1>1, <1>3, <1>4, <1>5 DEF LInv, DenialsNoted, ManifestNeedsCleanEntry
  <1>7. LiveTyped'
    BY <1>1 DEF LInv, LiveTyped, Stages
  <1>8. FenceFollows' /\ DenialsNoted'
    BY <1>1 DEF LInv, FenceFollows, DenialsNoted
  <1>9. QED
    BY <1>6, <1>7, <1>8 DEF LInv

LEMMA FailurePreserves ==
    ASSUME LInv, InspectionFails
    PROVE  LInv'
  <1> USE DEF Elsewhere, Looking, Touchless
  <1>1. /\ stage \notin {"off", "done"} /\ stage' = "done"
        /\ UNCHANGED <<pc, posting, fence, denied, entry, report>>
    BY DEF InspectionFails
  <1>2. report = Null
    BY <1>1 DEF LInv, LiveTyped
  <1>3. LiveTyped'
    BY <1>1 DEF LInv, LiveTyped, Stages
  <1>4. FenceFollows' /\ DenialsNoted' /\ ManifestNeedsCleanEntry'
    BY <1>1, <1>2 DEF LInv, FenceFollows, DenialsNoted, ManifestNeedsCleanEntry
  <1>5. QED
    BY <1>3, <1>4 DEF LInv

LEMMA LiveStep ==
    ASSUME LInv, [LiveNext]_liveVars
    PROVE  LInv'
  <1>1. CASE UNCHANGED liveVars
    BY <1>1 DEF LInv, LiveTyped, FenceFollows, DenialsNoted, ManifestNeedsCleanEntry, liveVars,
       vars, inspector
  <1>2. CASE Next /\ UNCHANGED inspector
    BY <1>2, CanaryPreserves
  <1>3. CASE PageAlters \/ PageRequests
    BY <1>3, PagePreserves
  <1>4. CASE InspectionFails
    BY <1>4, FailurePreserves
  <1>5. CASE PreForm \/ PreBody \/ SelectEntry
    BY <1>5, BeforeEntryPreserves
  <1>6. CASE InstallFence \/ EntryGone \/ Follow \/ Settle \/ Unfence
    BY <1>6, EntryPreserves
  <1>7. CASE ReadPosting
    BY <1>7, ReadPostingPreserves
  <1>8. CASE Judge
    BY <1>8, JudgePreserves
  <1>9. QED
    BY <1>1, <1>2, <1>3, <1>4, <1>5, <1>6, <1>7, <1>8 DEF LiveNext

(* The fence stands where the stage says, and an outcome of the entry knows *)
(* what was denied before it, in every run of an inspection or a canary.    *)
THEOREM LiveInvariance == LiveSpec => []LInv
  <1>1. LInv /\ [LiveNext]_liveVars => LInv'
    BY LiveStep
  <1>2. QED
    BY <1>1, LiveInitInv, PTL DEF LiveSpec

(* A form is proposed for a manifest review only when all of it was read,   *)
(* no entry failed on the way, and the fence denied nothing until then.     *)
THEOREM CleanEntryBeforeManifest == LiveSpec => []ManifestNeedsCleanEntry
  BY LiveInvariance, PTL DEF LInv

(* From the click on the entry until its outcome is decided no write of the *)
(* page leaves the browser and the page does not go to another site.        *)
THEOREM EntryIsFenced == LiveSpec => EntryStaysFenced
  <1> DEFINE Fenced == EntryUnderWay =>
                          /\ sent' = sent
                          /\ posting'.place = "elsewhere" => posting.place = "elsewhere"
  <1>1. ASSUME LInv, LiveNext, EntryUnderWay PROVE Fenced
    <2>1. stage \in {"settle", "unfence"} /\ fence /\ pc = 0 /\ posting \in Posting
      BY <1>1 DEF LInv, LiveTyped, FenceFollows, EntryUnderWay
    <2>2. CASE PageAlters
      BY <2>1, <2>2, AlteredIsPosting DEF PageAlters
    <2>3. CASE PageRequests
      BY <2>1, <2>3 DEF PageRequests
    <2>4. CASE Next /\ UNCHANGED inspector
      BY <2>4 DEF inspector
    <2>5. CASE InspectionFails \/ Settle \/ Unfence
      BY <2>5 DEF InspectionFails, Settle, Unfence, Touchless, Elsewhere
    <2>6. CASE PreForm \/ PreBody \/ SelectEntry \/ InstallFence \/ EntryGone \/ Follow
               \/ ReadPosting \/ Judge
      BY <2>1, <2>6 DEF PreForm, PreBody, SelectEntry, InstallFence, EntryGone, Follow,
         ReadPosting, Judge, Goal
    <2>7. QED
      BY <1>1, <2>2, <2>3, <2>4, <2>5, <2>6 DEF LiveNext
  <1>2. LInv /\ [LiveNext]_liveVars => [Fenced]_liveVars
    BY <1>1
  <1>3. QED
    BY <1>2, LiveInvariance, PTL DEF LiveSpec, EntryStaysFenced

-----------------------------------------------------------------------------
(* Both together. *)

LEMMA LiveInitSights == LiveInit => SightsInv
  <1> SUFFICES ASSUME LiveInit PROVE SightsInv
    OBVIOUS
  <1>1. /\ form = Null /\ report = Null
        /\ page \in [entries: {"reviewed"}, controls : {"none"}, captcha : {FALSE}, auth : {FALSE},
                     cookies : {"banner", "gone"}, actions : {"reviewed"}, phone : {"reviewed"},
                     dom : {0}, held : {{}}, tabs : {1}]
        /\ stage # "off" => canary = "smartrecruiters" /\ pc = 0
        /\ pc \in {0, 1}
    BY DEF LiveInit, Init, Fresh
  <1>2. page \in Pages
    <2>1. /\ {"reviewed"} \subseteq AnyEntries /\ {"none"} \subseteq AnyControls
          /\ {FALSE} \subseteq BOOLEAN /\ {0} \subseteq Nat
          /\ {{}} \subseteq SUBSET Targets(canary)
      BY DEF AnyEntries, AnyControls
    <2>2. \A A, B, C, H :
             /\ {"reviewed"} \subseteq A /\ {"none"} \subseteq B /\ {FALSE} \subseteq C
             /\ {0} \subseteq Nat /\ {{}} \subseteq H
             => page \in [entries : A, controls : B, captcha : C, auth : C,
                          cookies : {"gone", "banner", "center", "odd_banner", "odd_center"},
                          actions : {"reviewed", "changed"},
                          phone : {"none", "reviewed", "changed"},
                          dom : Nat, held : H, tabs : {1, 2}]
      BY <1>1
    <2>3. QED
      BY <2>1, <2>2 DEF Pages
  <1>3. Sighted
    <2>1. \A k \in DOMAIN Course : ~(k < 1)
      BY CountsInitInv, CourseIsSound DEF CountsInv, Sound
    <2>2. QED
      BY <1>1, <2>1 DEF Sighted, LastLook
  <1>4. QED
    BY <1>1, <1>2, <1>3 DEF SightsInv, RouteFollowsLastLook

LEMMA InspectionSights ==
    ASSUME SightsInv, stage # "off", stage' # "off", pc = 0, UNCHANGED <<canary, pc, page>>,
           report' = report, report = Null
    PROVE  SightsInv'
  <1>1. page' \in Pages'
    BY DEF SightsInv, Pages
  <1>2. Sighted'
    BY DEF Sighted
  <1>3. QED
    BY <1>1, <1>2 DEF SightsInv, RouteFollowsLastLook

(* The inspection sends a boundary to a human, and nothing else. *)
LEMMA JudgeSights ==
    ASSUME SightsInv, LInv, Judge
    PROVE  SightsInv'
  <1> DEFINE captcha == form.challenged \/ posting.challenge = "text"
             state   == Reported(captcha)
             auth    == DiscoveryState(form) = "auth_boundary"
  <1>1. /\ stage = "body" /\ stage' = "done" /\ UNCHANGED <<canary, pc, page, landed>>
        /\ seen'.state = state /\ seen'.captcha = captcha /\ seen'.auth = auth /\ seen'.time = Done
        /\ report'.route = PostingRoute(state, captcha)
    BY DEF Judge, Goal, Elsewhere, Touchless
  <1>2. form \in FormReading /\ pc = 0 /\ canary = "smartrecruiters"
    BY <1>1 DEF LInv, LiveTyped, SightsInv
  <1>3. captcha \in BOOLEAN /\ auth \in BOOLEAN
    BY <1>2 DEF FormReading
  <1> HIDE DEF captcha, state, auth
  <1>4. /\ (report'.route = "human_handoff") = (captcha \/ auth)
        /\ report'.route = "manifest_review_candidate" => state = "inspected"
        /\ report'.route # "navigation_review_candidate"
    BY <1>1, <1>3 DEF PostingRoute, auth
  <1>5. BoundarySeen' = (captcha \/ auth)
    BY <1>1, <1>2 DEF BoundarySeen
  <1>6. Done' = Done
    BY <1>1 DEF Done
  <1>7. RouteFollowsLastLook'
    BY <1>1, <1>2, <1>4, <1>5, <1>6 DEF RouteFollowsLastLook
  <1>8. page' \in Pages' /\ Sighted'
    BY <1>1, <1>2 DEF SightsInv, Pages, Sighted
  <1>9. QED
    BY <1>1, <1>2, <1>7, <1>8 DEF SightsInv

LEMMA WholeStep ==
    ASSUME LInv, CountsInv, SightsInv, [LiveNext]_liveVars
    PROVE  CountsInv' /\ SightsInv'
  <1>1. CASE UNCHANGED liveVars
    <2>1. CountsInv'
      BY <1>1 DEF liveVars, vars, inspector, CountsInv, CountsTyped, CountedEffects, ClickedBehind,
         BehindClicked, WrittenBehind, ReportedCounts, EntryOnce, Aimed, At, step, Landings, Course
    <2>2. page' \in Pages' /\ Sighted'
      BY <1>1 DEF liveVars, vars, SightsInv, Pages, Sighted, Course, Done
    <2>3. RouteFollowsLastLook'
      BY <1>1 DEF liveVars, vars, SightsInv, RouteFollowsLastLook, BoundarySeen, Done
    <2>4. QED
      BY <1>1, <2>1, <2>2, <2>3 DEF liveVars, vars, inspector, SightsInv
  <1>2. CASE Next /\ UNCHANGED inspector
    <2>1. stage = "off"
      BY <1>2, CanariesRest DEF LInv, LiveTyped
    <2>2. QED
      BY <1>2, <2>1, CanaryCounts, CanarySights
  <1>3. CASE PageAlters \/ PageRequests \/ InspectionFails \/ PreForm \/ PreBody \/ SelectEntry
             \/ InstallFence \/ EntryGone \/ Settle \/ Unfence \/ ReadPosting
    <2>1. /\ stage \notin {"off", "done"} /\ stage' # "off"
          /\ UNCHANGED <<canary, pc, target, page, successes, attempts, landed, report>>
          /\ stage' \in {"off", "pre", "pre_body", "select", "fence", "follow"} =>
                stage \in {"off", "pre", "pre_body", "select", "fence", "follow"}
      BY <1>3 DEF PageAlters, PageRequests, InspectionFails, PreForm, PreBody, SelectEntry,
         InstallFence, EntryGone, Settle, Unfence, ReadPosting, Inspecting, Elsewhere, Looking, Touchless, Goal
    <2>2. pc = 0 /\ report = Null
      BY <2>1 DEF LInv, LiveTyped
    <2>3. CountsInv'
      BY <2>1, <2>2, InspectionCounts
    <2>4. SightsInv'
      BY <2>1, <2>2, InspectionSights
    <2>5. QED
      BY <2>3, <2>4
  <1>4. CASE Follow
    <2>1. /\ stage = "follow" /\ stage' \in {"settle", "unfence"}
          /\ UNCHANGED <<canary, pc, target, page, successes, report>>
          /\ attempts' = Add(attempts, "entry") /\ landed' \in {landed, Add(landed, "entry")}
      BY <1>4 DEF Follow, TakeEffect, Elsewhere, Looking
    <2>2. pc = 0 /\ report = Null
      BY <2>1 DEF LInv, LiveTyped
    <2>3. CountsInv'
      BY <2>1, <2>2, InspectionCounts
    <2>4. SightsInv'
      BY <2>1, <2>2, InspectionSights
    <2>5. QED
      BY <2>3, <2>4
  <1>5. CASE Judge
    <2>1. /\ stage = "body" /\ stage' = "done" /\ UNCHANGED <<canary, pc, target, page, successes, attempts, landed>>
          /\ report'.attempts = attempts /\ report'.successes = successes
      BY <1>5 DEF Judge, Goal, Elsewhere, Touchless
    <2>2. pc = 0
      BY <2>1 DEF LInv, LiveTyped
    <2>3. CountsInv'
      BY <2>1, <2>2, InspectionCounts
    <2>4. QED
      BY <1>5, <2>3, JudgeSights
  <1>6. QED
    BY <1>1, <1>2, <1>3, <1>4, <1>5 DEF LiveNext

(* Every run of a canary or an inspection keeps the counters in step with   *)
(* the effects and the snapshots in step with the page.                     *)
THEOREM RunsInvariance == LiveSpec => [](LInv /\ CountsInv /\ SightsInv)
  <1>1. LInv /\ CountsInv /\ SightsInv /\ [LiveNext]_liveVars => (LInv /\ CountsInv /\ SightsInv)'
    BY LiveStep, WholeStep
  <1>2. LiveInit => LInv /\ CountsInv /\ SightsInv
    BY LiveInitInv, CountsInitInv, LiveInitSights
  <1>3. QED
    BY <1>1, <1>2, PTL DEF LiveSpec

(* No run clicks or writes anything twice, and what run_* returns never     *)
(* hides what was done to the page, whatever raised when.  The zeros that   *)
(* profile v2's main reports of an exception are no such counters.          *)
THEOREM CountersCoverEffects == LiveSpec => []ReportsCoverEffects
  BY RunsInvariance, CountsCover, PTL

(* The verdict of a finished run is about the page it looked at last, after *)
(* everything it did.                                                       *)
THEOREM VerdictsFollowLastLook == LiveSpec => []RouteFollowsLastLook
  BY RunsInvariance, PTL DEF SightsInv
-----------------------------------------------------------------------------
(* What the plans check before they act. *)

Applies(s, i)   == s[i].do = "click" /\ s[i].on = "apply"
Continues(s, i) == s[i].do = "click" /\ s[i].on = "continue"

(* Apply is clicked on an entry surface that the last look compared. *)
EntryChecked(s, labelled, bounded, idle) ==
    \A n \in DOMAIN s : Applies(s, n) =>
        /\ labelled => "label" \in s[n].gates
        /\ \E k \in DOMAIN s :
              /\ LastLook(s, k, n) /\ s[k].do = "look" /\ "nav_surface" \in s[k].gates
              /\ bounded => "off_boundary" \in s[k].gates
              /\ idle => Idle(s, k, n)

(* Every write comes after a look at the form, between Apply and Continue,  *)
(* and only writes come between.                                            *)
WritesChecked(s) ==
    \A n \in DOMAIN s : s[n].do = "fill" =>
        /\ \E k \in DOMAIN s :
              /\ LastLook(s, k, n) /\ s[k].do = "look" /\ "fill_surface" \in s[k].gates
              /\ \A m \in DOMAIN s : k < m /\ m < n => s[m].do # "click"
              /\ \A m \in DOMAIN s : m < k => s[m].do # "fill"
        /\ \E a \in DOMAIN s : a < n /\ Applies(s, a)
        /\ \A i \in DOMAIN s : i < n => ~Continues(s, i)

(* Before Continue the form was looked at, every write was read back, and   *)
(* the buttons were seen after the last act.                                *)
ContinueChecked(s, fresh) ==
    \A n \in DOMAIN s : Continues(s, n) =>
        /\ \E k \in DOMAIN s :
              /\ LastLook(s, k, n) /\ s[k].do = "look" /\ "fill_surface" \in s[k].gates
              /\ fresh => Idle(s, k, n)
        /\ \E g \in DOMAIN s : g < n /\ s[g].do = "glance" /\ "actions" \in s[g].gates /\ Idle(s, g, n)
        /\ \E i \in DOMAIN s : s[i].do = "fill"
        /\ \A i \in DOMAIN s : s[i].do = "fill" =>
              \E j \in DOMAIN s : j < n /\ s[j].do = "readback" /\ s[j].on = s[i].on
        /\ \A j \in DOMAIN s : s[j].do = "readback" =>
              \E i \in DOMAIN s : s[i].do = "fill" /\ s[i].on = s[j].on

(* What follows an entrance does not take its checks away. *)
LEMMA EntrancesCheck ==
    ASSUME NEW s, NEW t, Listed(s), Listed(t), NEW labelled, NEW bounded, NEW idle,
           EntryChecked(s, labelled, bounded, idle), \A i \in DOMAIN t : ~Applies(t, i)
    PROVE  EntryChecked(s \o t, labelled, bounded, idle)
  <1> DEFINE u == s \o t
  <1>1. /\ Len(s) \in Nat /\ DOMAIN s = 1..Len(s)
        /\ DOMAIN u = 1..(Len(s) + Len(t)) /\ Len(t) \in Nat
        /\ \A i \in DOMAIN s : u[i] = s[i] /\ i \in DOMAIN u
        /\ \A i \in DOMAIN u : i \in DOMAIN s \/ (i - Len(s) \in DOMAIN t /\ u[i] = t[i - Len(s)])
    BY Concatenation
  <1> HIDE DEF u
  <1>2. SUFFICES ASSUME NEW n \in DOMAIN u, Applies(u, n)
                 PROVE  /\ labelled => "label" \in u[n].gates
                        /\ \E k \in DOMAIN u :
                              /\ LastLook(u, k, n) /\ u[k].do = "look" /\ "nav_surface" \in u[k].gates
                              /\ bounded => "off_boundary" \in u[k].gates
                              /\ idle => Idle(u, k, n)
    BY DEF EntryChecked, u
  <1>3. n \in DOMAIN s /\ u[n] = s[n]
    BY <1>1, <1>2 DEF Applies
  <1>4. labelled => "label" \in u[n].gates
    BY <1>2, <1>3 DEF EntryChecked, Applies
  <1>5. PICK k \in DOMAIN s : /\ LastLook(s, k, n) /\ s[k].do = "look" /\ "nav_surface" \in s[k].gates
                              /\ bounded => "off_boundary" \in s[k].gates
                              /\ idle => Idle(s, k, n)
    BY <1>2, <1>3 DEF EntryChecked, Applies
  <1>6. \A m \in DOMAIN u : m < n => m \in DOMAIN s /\ u[m] = s[m]
    BY <1>1, <1>3
  <1>7. k \in DOMAIN u /\ u[k] = s[k] /\ LastLook(u, k, n) /\ (idle => Idle(u, k, n))
    BY <1>1, <1>5, <1>6 DEF LastLook, Idle, Looks, Acts
  <1>8. QED
    BY <1>4, <1>5, <1>7

(* How a plan that writes is put together: an entrance, an opening that     *)
(* looks at the form, bodies that write and read back, and a tail.          *)
Entrance(e) ==
    /\ \E a \in DOMAIN e : Applies(e, a)
    /\ \A i \in DOMAIN e : e[i].do \notin {"fill", "readback"} /\ ~Continues(e, i)

Opening(l) ==
    /\ 1 \in DOMAIN l /\ l[1].do = "look" /\ "fill_surface" \in l[1].gates
    /\ \A i \in DOMAIN l : i # 1 => l[i].do = "glance"

Body(b) ==
    /\ \A i \in DOMAIN b : b[i].do \in {"fill", "readback"}
    /\ \E i \in DOMAIN b : b[i].do = "fill"
    /\ \A i \in DOMAIN b : b[i].do = "fill" => \E j \in DOMAIN b : b[j].do = "readback" /\ b[j].on = b[i].on
    /\ \A j \in DOMAIN b : b[j].do = "readback" => \E i \in DOMAIN b : b[i].do = "fill" /\ b[i].on = b[j].on

Ending(t, fresh) ==
    /\ \A i \in DOMAIN t : t[i].do \notin {"fill", "readback"}
    /\ \A n \in DOMAIN t : Continues(t, n) =>
          /\ \E g \in DOMAIN t : g < n /\ t[g].do = "glance" /\ "actions" \in t[g].gates /\ Idle(t, g, n)
          /\ \/ \E k \in DOMAIN t : /\ LastLook(t, k, n) /\ t[k].do = "look" /\ "fill_surface" \in t[k].gates
                                    /\ Idle(t, k, n)
             \/ ~fresh /\ \A m \in DOMAIN t : m < n => ~Looks(t, m)

(* A plan up to its tail: since the look at the form, k, it only writes. *)
FormOpened(s, k) ==
    /\ k \in DOMAIN s /\ s[k].do = "look" /\ "fill_surface" \in s[k].gates
    /\ \A m \in DOMAIN s : k < m => s[m].do \in {"glance", "fill", "readback"}
    /\ \A m \in DOMAIN s : m <= k => s[m].do \notin {"fill", "readback"}
    /\ \E a \in DOMAIN s : a < k /\ Applies(s, a)
    /\ \A i \in DOMAIN s : ~Continues(s, i)
    /\ \A i \in DOMAIN s : s[i].do = "fill" => \E j \in DOMAIN s : s[j].do = "readback" /\ s[j].on = s[i].on
    /\ \A j \in DOMAIN s : s[j].do = "readback" => \E i \in DOMAIN s : s[i].do = "fill" /\ s[i].on = s[j].on

LEMMA OpeningOpens ==
    ASSUME NEW e, NEW l, Listed(e), Listed(l), Entrance(e), Opening(l)
    PROVE  FormOpened(e \o l, Len(e) + 1)
  <1> DEFINE u == e \o l
             k == Len(e) + 1
  <1>1. /\ Len(e) \in Nat /\ DOMAIN e = 1..Len(e) /\ Len(l) \in Nat /\ DOMAIN l = 1..Len(l)
        /\ DOMAIN u = 1..(Len(e) + Len(l))
        /\ \A i \in DOMAIN e : u[i] = e[i] /\ i \in DOMAIN u
        /\ \A i \in DOMAIN l : u[Len(e) + i] = l[i] /\ Len(e) + i \in DOMAIN u
        /\ \A i \in DOMAIN u : i \in DOMAIN e \/ (i - Len(e) \in DOMAIN l /\ u[i] = l[i - Len(e)])
    BY Concatenation
  <1> HIDE DEF u
  <1>2. k \in DOMAIN u /\ u[k] = l[1]
    BY <1>1 DEF Opening
  <1>3. ASSUME NEW m \in DOMAIN u, k < m PROVE u[m].do = "glance"
    <2>1. m - Len(e) \in DOMAIN l /\ m - Len(e) # 1 /\ u[m] = l[m - Len(e)]
      BY <1>1, <1>3
    <2>2. QED
      BY <2>1 DEF Opening
  <1>4. \A m \in DOMAIN u : m < k => m \in DOMAIN e /\ u[m] = e[m]
    BY <1>1
  <1>5. \A m \in DOMAIN u : m < k \/ m = k \/ k < m
    BY <1>1
  <1>6. \A m \in DOMAIN u : u[m].do \notin {"fill", "readback"} /\ ~Continues(u, m)
    BY <1>2, <1>3, <1>4, <1>5 DEF Entrance, Opening, Continues
  <1>7. \E a \in DOMAIN u : a < k /\ Applies(u, a)
    BY <1>1 DEF Entrance, Applies
  <1> HIDE DEF k
  <1>8. FormOpened(u, k)
    BY <1>2, <1>3, <1>6, <1>7 DEF FormOpened, Opening
  <1>9. QED
    BY <1>8 DEF u, k

LEMMA BodyKeepsOpened ==
    ASSUME NEW s, NEW b, NEW k, Listed(s), Listed(b), FormOpened(s, k), Body(b)
    PROVE  FormOpened(s \o b, k) /\ \E i \in DOMAIN (s \o b) : (s \o b)[i].do = "fill"
  <1> DEFINE u == s \o b
  <1>1. /\ Len(s) \in Nat /\ DOMAIN s = 1..Len(s) /\ Len(b) \in Nat /\ DOMAIN b = 1..Len(b)
        /\ DOMAIN u = 1..(Len(s) + Len(b))
        /\ \A i \in DOMAIN s : u[i] = s[i] /\ i \in DOMAIN u
        /\ \A i \in DOMAIN b : u[Len(s) + i] = b[i] /\ Len(s) + i \in DOMAIN u
        /\ \A i \in DOMAIN u : i \in DOMAIN s \/ (i - Len(s) \in DOMAIN b /\ u[i] = b[i - Len(s)])
    BY Concatenation
  <1> HIDE DEF u
  <1>2. /\ k \in DOMAIN u /\ u[k].do = "look" /\ "fill_surface" \in u[k].gates
        /\ \E a \in DOMAIN u : a < k /\ Applies(u, a)
    BY <1>1 DEF FormOpened, Applies
  <1>3. ASSUME NEW m \in DOMAIN u
        PROVE  \/ m \in DOMAIN s /\ u[m] = s[m]
               \/ \E i \in DOMAIN b : u[m] = b[i] /\ u[m].do \in {"fill", "readback"}
    BY <1>1 DEF Body
  <1>a. \A m \in DOMAIN u : k < m => u[m].do \in {"glance", "fill", "readback"}
    BY <1>3 DEF FormOpened
  <1>4. \A m \in DOMAIN u : m <= k => u[m].do \notin {"fill", "readback"}
    <2>1. \A m \in DOMAIN u : m <= k => m \in DOMAIN s
      BY <1>1 DEF FormOpened
    <2>2. QED
      BY <1>1, <2>1 DEF FormOpened
  <1>5. \A i \in DOMAIN u : ~Continues(u, i)
    BY <1>3 DEF FormOpened, Continues
  <1>6. ASSUME NEW i \in DOMAIN u, u[i].do = "fill"
        PROVE  \E j \in DOMAIN u : u[j].do = "readback" /\ u[j].on = u[i].on
    <2>1. CASE i \in DOMAIN s /\ u[i] = s[i]
      <3>1. PICK j \in DOMAIN s : s[j].do = "readback" /\ s[j].on = s[i].on
        BY <1>6, <2>1 DEF FormOpened
      <3>2. QED
        BY <1>1, <2>1, <3>1
    <2>2. CASE \E x \in DOMAIN b : u[i] = b[x]
      <3>1. PICK x \in DOMAIN b : u[i] = b[x]
        BY <2>2
      <3>2. PICK j \in DOMAIN b : b[j].do = "readback" /\ b[j].on = b[x].on
        BY <1>6, <3>1 DEF Body
      <3>3. Len(s) + j \in DOMAIN u /\ u[Len(s) + j] = b[j]
        BY <1>1, <3>2
      <3>4. QED
        BY <3>1, <3>2, <3>3
    <2>3. QED
      BY <1>3, <1>6, <2>1, <2>2
  <1>7. ASSUME NEW j \in DOMAIN u, u[j].do = "readback"
        PROVE  \E i \in DOMAIN u : u[i].do = "fill" /\ u[i].on = u[j].on
    <2>1. CASE j \in DOMAIN s /\ u[j] = s[j]
      <3>1. PICK i \in DOMAIN s : s[i].do = "fill" /\ s[i].on = s[j].on
        BY <1>7, <2>1 DEF FormOpened
      <3>2. QED
        BY <1>1, <2>1, <3>1
    <2>2. CASE \E x \in DOMAIN b : u[j] = b[x]
      <3>1. PICK x \in DOMAIN b : u[j] = b[x]
        BY <2>2
      <3>2. PICK i \in DOMAIN b : b[i].do = "fill" /\ b[i].on = b[x].on
        BY <1>7, <3>1 DEF Body
      <3>3. Len(s) + i \in DOMAIN u /\ u[Len(s) + i] = b[i]
        BY <1>1, <3>2
      <3>4. QED
        BY <3>1, <3>2, <3>3
    <2>3. QED
      BY <1>3, <1>7, <2>1, <2>2
  <1>8. \E i \in DOMAIN u : u[i].do = "fill"
    BY <1>1 DEF Body
  <1>9. FormOpened(u, k)
    BY <1>2, <1>a, <1>4, <1>5, <1>6, <1>7 DEF FormOpened
  <1>10. QED
    BY <1>8, <1>9 DEF u

LEMMA TailChecks ==
    ASSUME NEW s, NEW t, NEW k, NEW fresh, Listed(s), Listed(t), FormOpened(s, k), Ending(t, fresh),
           \E i \in DOMAIN s : s[i].do = "fill"
    PROVE  WritesChecked(s \o t) /\ ContinueChecked(s \o t, fresh)
  <1> DEFINE u == s \o t
  <1>1. /\ Len(s) \in Nat /\ DOMAIN s = 1..Len(s) /\ Len(t) \in Nat /\ DOMAIN t = 1..Len(t)
        /\ DOMAIN u = 1..(Len(s) + Len(t))
        /\ \A i \in DOMAIN s : u[i] = s[i] /\ i \in DOMAIN u
        /\ \A i \in DOMAIN t : u[Len(s) + i] = t[i] /\ Len(s) + i \in DOMAIN u
        /\ \A i \in DOMAIN u : i \in DOMAIN s \/ (i - Len(s) \in DOMAIN t /\ u[i] = t[i - Len(s)])
    BY Concatenation
  <1> HIDE DEF u
  <1>2. /\ k \in DOMAIN s /\ k \in DOMAIN u /\ k \in Nat /\ k <= Len(s) /\ u[k] = s[k]
        /\ u[k].do = "look" /\ "fill_surface" \in u[k].gates /\ Looks(u, k)
    BY <1>1 DEF FormOpened, Looks
  <1>3. \A m \in DOMAIN u : k < m /\ m <= Len(s) => ~Looks(u, m) /\ u[m].do # "click"
    <2>1. TAKE m \in DOMAIN u
    <2>2. HAVE k < m /\ m <= Len(s)
    <2>3. m \in DOMAIN s /\ u[m] = s[m]
      BY <1>1, <1>2, <2>2
    <2>4. s[m].do \in {"glance", "fill", "readback"}
      BY <2>2, <2>3 DEF FormOpened
    <2>5. QED
      BY <2>3, <2>4 DEF Looks
  <1>4. \A m \in DOMAIN u : u[m].do \in {"fill", "readback"} => m \in DOMAIN s /\ k < m
    BY <1>1, <1>2 DEF FormOpened, Ending
  <1>5. WritesChecked(u)
    <2>1. SUFFICES ASSUME NEW n \in DOMAIN u, u[n].do = "fill"
                   PROVE  /\ /\ LastLook(u, k, n)
                             /\ \A m \in DOMAIN u : k < m /\ m < n => u[m].do # "click"
                             /\ \A m \in DOMAIN u : m < k => u[m].do # "fill"
                          /\ \E a \in DOMAIN u : a < n /\ Applies(u, a)
                          /\ \A i \in DOMAIN u : i < n => ~Continues(u, i)
      BY <1>2 DEF WritesChecked
    <2>2. n \in DOMAIN s /\ k < n
      BY <1>4, <2>1
    <2>3. \A m \in DOMAIN u : m < n => m <= Len(s) /\ m \in DOMAIN s /\ u[m] = s[m]
      BY <1>1, <2>2
    <2>4. LastLook(u, k, n) /\ \A m \in DOMAIN u : k < m /\ m < n => u[m].do # "click"
      BY <1>2, <1>3, <2>2, <2>3 DEF LastLook
    <2>5. \A m \in DOMAIN u : m < k => u[m].do # "fill"
      BY <1>1, <1>2, <1>4
    <2>6. \E a \in DOMAIN u : a < n /\ Applies(u, a)
      <3>1. PICK a \in DOMAIN s : a < k /\ Applies(s, a)
        BY DEF FormOpened
      <3>2. a \in DOMAIN u /\ a < n /\ Applies(u, a)
        BY <1>1, <1>2, <2>2, <3>1 DEF Applies
      <3>3. QED
        BY <3>2
    <2>7. \A i \in DOMAIN u : i < n => ~Continues(u, i)
      BY <2>3 DEF FormOpened, Continues
    <2>8. QED
      BY <2>4, <2>5, <2>6, <2>7
  <1>6. ContinueChecked(u, fresh)
    <2>1. SUFFICES ASSUME NEW n \in DOMAIN u, Continues(u, n)
                   PROVE  /\ \E h \in DOMAIN u :
                                /\ LastLook(u, h, n) /\ u[h].do = "look" /\ "fill_surface" \in u[h].gates
                                /\ fresh => Idle(u, h, n)
                          /\ \E g \in DOMAIN u :
                                g < n /\ u[g].do = "glance" /\ "actions" \in u[g].gates /\ Idle(u, g, n)
                          /\ \E i \in DOMAIN u : u[i].do = "fill"
                          /\ \A i \in DOMAIN u : u[i].do = "fill" =>
                                \E j \in DOMAIN u : j < n /\ u[j].do = "readback" /\ u[j].on = u[i].on
                          /\ \A j \in DOMAIN u : u[j].do = "readback" =>
                                \E i \in DOMAIN u : u[i].do = "fill" /\ u[i].on = u[j].on
      BY DEF ContinueChecked
    <2> DEFINE p == n - Len(s)
    <2>2. p \in DOMAIN t /\ u[n] = t[p] /\ n = Len(s) + p /\ Continues(t, p) /\ p \in Nat
      BY <1>1, <2>1 DEF FormOpened, Continues
    <2> HIDE DEF p
    <2>3. \A m \in DOMAIN u : Len(s) < m /\ m < n =>
             m - Len(s) \in DOMAIN t /\ u[m] = t[m - Len(s)] /\ m - Len(s) < p
      BY <1>1, <2>2
    <2>4. \E i \in DOMAIN u : u[i].do = "fill"
      BY <1>1
    <2>5. ASSUME NEW i \in DOMAIN u, u[i].do = "fill"
          PROVE  \E j \in DOMAIN u : j < n /\ u[j].do = "readback" /\ u[j].on = u[i].on
      <3>1. i \in DOMAIN s /\ s[i].do = "fill"
        BY <1>1, <1>4, <2>5
      <3>2. PICK j \in DOMAIN s : s[j].do = "readback" /\ s[j].on = s[i].on
        BY <3>1 DEF FormOpened
      <3>3. QED
        BY <1>1, <2>2, <3>1, <3>2
    <2>6. ASSUME NEW j \in DOMAIN u, u[j].do = "readback"
          PROVE  \E i \in DOMAIN u : u[i].do = "fill" /\ u[i].on = u[j].on
      <3>1. j \in DOMAIN s /\ s[j].do = "readback"
        BY <1>1, <1>4, <2>6
      <3>2. PICK i \in DOMAIN s : s[i].do = "fill" /\ s[i].on = s[j].on
        BY <3>1 DEF FormOpened
      <3>3. QED
        BY <1>1, <3>1, <3>2
    <2>7. \E g \in DOMAIN u : g < n /\ u[g].do = "glance" /\ "actions" \in u[g].gates /\ Idle(u, g, n)
      <3>1. PICK g \in DOMAIN t : g < p /\ t[g].do = "glance" /\ "actions" \in t[g].gates /\ Idle(t, g, p)
        BY <2>2 DEF Ending
      <3> DEFINE h == Len(s) + g
      <3>2. h \in DOMAIN u /\ u[h] = t[g] /\ h < n
        BY <1>1, <2>2, <3>1
      <3>3. \A m \in DOMAIN u : h < m /\ m < n => g < m - Len(s) /\ Len(s) < m
        BY <1>1, <3>1
      <3> HIDE DEF h
      <3>4. Idle(u, h, n)
        BY <2>3, <3>1, <3>3 DEF Idle, Acts
      <3>5. QED
        BY <3>1, <3>2, <3>4
    <2>8. \E h \in DOMAIN u : /\ LastLook(u, h, n) /\ u[h].do = "look" /\ "fill_surface" \in u[h].gates
                              /\ fresh => Idle(u, h, n)
      <3>1. CASE \E q \in DOMAIN t : /\ LastLook(t, q, p) /\ t[q].do = "look" /\ "fill_surface" \in t[q].gates
                                     /\ Idle(t, q, p)
        <4>1. PICK q \in DOMAIN t : /\ LastLook(t, q, p) /\ t[q].do = "look" /\ "fill_surface" \in t[q].gates
                                    /\ Idle(t, q, p)
          BY <3>1
        <4> DEFINE h == Len(s) + q
        <4>2. h \in DOMAIN u /\ u[h] = t[q] /\ h < n
          BY <1>1, <2>2, <4>1 DEF LastLook
        <4>3. \A m \in DOMAIN u : h < m /\ m < n => q < m - Len(s) /\ Len(s) < m
          BY <1>1, <4>1
        <4> HIDE DEF h
        <4>4. LastLook(u, h, n) /\ Idle(u, h, n)
          BY <2>3, <4>1, <4>2, <4>3 DEF LastLook, Looks, Idle, Acts
        <4>5. QED
          BY <4>1, <4>2, <4>4
      <3>2. CASE ~fresh /\ \A m \in DOMAIN t : m < p => ~Looks(t, m)
        <4>1. \A m \in DOMAIN u : m < n /\ Len(s) < m => ~Looks(u, m)
          BY <2>3, <3>2 DEF Looks
        <4>2. \A m \in DOMAIN u : k < m /\ m < n => ~Looks(u, m)
          BY <1>1, <1>3, <4>1
        <4>3. k < n
          BY <1>1, <1>2, <2>2
        <4>4. QED
          BY <1>2, <3>2, <4>2, <4>3 DEF LastLook
      <3>3. QED
        BY <2>2, <3>1, <3>2 DEF Ending
    <2>9. QED
      BY <2>4, <2>5, <2>6, <2>7, <2>8
  <1>7. QED
    BY <1>5, <1>6 DEF u
(* The plans, and the entrances of those that write. *)
Harmless(s) == \A i \in DOMAIN s : s[i].do # "fill" /\ ~Continues(s, i)

LEMMA NavigationPlanChecks ==
    EntryChecked(NavigationPlan, TRUE, TRUE, TRUE) /\ Harmless(NavigationPlan)
  <1> DEFINE e == NavigationPlan
  <1>1. DOMAIN e = 1..4
    BY DEF NavigationPlan
  <1>2. \A i \in 1..4 : Applies(e, i) => i = 2
    BY DEF NavigationPlan, Look, Banner, Survey, Click, Glance, ListButtons, End, Step, Applies
  <1>3. /\ LastLook(e, 1, 2) /\ e[1].do = "look" /\ "nav_surface" \in e[1].gates
        /\ TRUE => "label" \in e[2].gates
        /\ TRUE => "off_boundary" \in e[1].gates
        /\ TRUE => Idle(e, 1, 2)
    BY DEF NavigationPlan, Look, Banner, Survey, Click, Glance, ListButtons, End, Step, EntryGates, LastLook, Looks, Idle, Acts
  <1>4. \A i \in 1..4 : e[i].do # "fill" /\ ~Continues(e, i)
    BY DEF NavigationPlan, Look, Banner, Survey, Click, Glance, ListButtons, End, Step, Continues
  <1> HIDE DEF e
  <1>5. EntryChecked(e, TRUE, TRUE, TRUE)
    BY <1>1, <1>2, <1>3 DEF EntryChecked
  <1>6. Harmless(e)
    BY <1>1, <1>4 DEF Harmless
  <1>7. QED
    BY <1>5, <1>6 DEF e

LEMMA CookiePreferencesPlanChecks ==
    EntryChecked(CookiePreferencesPlan, TRUE, TRUE, TRUE) /\ Harmless(CookiePreferencesPlan)
  <1> DEFINE e == CookiePreferencesPlan
  <1>1. DOMAIN e = 1..4
    BY DEF CookiePreferencesPlan
  <1>2. \A i \in 1..4 : ~Applies(e, i)
    BY DEF CookiePreferencesPlan, Look, Banner, Survey, Click, Glance, ListButtons, End, Step, Applies
  <1>4. \A i \in 1..4 : e[i].do # "fill" /\ ~Continues(e, i)
    BY DEF CookiePreferencesPlan, Look, Banner, Survey, Click, Glance, ListButtons, End, Step, Continues
  <1> HIDE DEF e
  <1>5. EntryChecked(e, TRUE, TRUE, TRUE)
    BY <1>1, <1>2 DEF EntryChecked
  <1>6. Harmless(e)
    BY <1>1, <1>4 DEF Harmless
  <1>7. QED
    BY <1>5, <1>6 DEF e

LEMMA PhoneContractPlanChecks ==
    EntryChecked(PhoneContractPlan, TRUE, TRUE, TRUE) /\ Harmless(PhoneContractPlan)
  <1> DEFINE e == PhoneContractPlan
  <1>1. DOMAIN e = 1..12
    BY DEF PhoneContractPlan
  <1>2. \A i \in 1..12 : Applies(e, i) => i = 8
    BY DEF PhoneContractPlan, Look, Banner, Survey, Click, Glance, ListButtons, End, Step, Applies
  <1>3. /\ LastLook(e, 7, 8) /\ e[7].do = "look" /\ "nav_surface" \in e[7].gates
        /\ TRUE => "label" \in e[8].gates
        /\ TRUE => "off_boundary" \in e[7].gates
        /\ TRUE => Idle(e, 7, 8)
    BY DEF PhoneContractPlan, Look, Banner, Survey, Click, Glance, ListButtons, End, Step, EntryGates, LastLook, Looks, Idle, Acts
  <1>4. \A i \in 1..12 : e[i].do # "fill" /\ ~Continues(e, i)
    BY DEF PhoneContractPlan, Look, Banner, Survey, Click, Glance, ListButtons, End, Step, Continues
  <1> HIDE DEF e
  <1>5. EntryChecked(e, TRUE, TRUE, TRUE)
    BY <1>1, <1>2, <1>3 DEF EntryChecked
  <1>6. Harmless(e)
    BY <1>1, <1>4 DEF Harmless
  <1>7. QED
    BY <1>5, <1>6 DEF e

LEMMA LiveInspectionPlanChecks ==
    EntryChecked(LiveInspectionPlan, TRUE, TRUE, TRUE) /\ Harmless(LiveInspectionPlan)
  <1> DEFINE e == LiveInspectionPlan
  <1>1. DOMAIN e = 1..2
    BY DEF LiveInspectionPlan
  <1>2. \A i \in 1..2 : ~Applies(e, i)
    BY DEF LiveInspectionPlan, Look, Banner, Survey, Click, Glance, ListButtons, End, Step, Applies
  <1>4. \A i \in 1..2 : e[i].do # "fill" /\ ~Continues(e, i)
    BY DEF LiveInspectionPlan, Look, Banner, Survey, Click, Glance, ListButtons, End, Step, Continues
  <1> HIDE DEF e
  <1>5. EntryChecked(e, TRUE, TRUE, TRUE)
    BY <1>1, <1>2 DEF EntryChecked
  <1>6. Harmless(e)
    BY <1>1, <1>4 DEF Harmless
  <1>7. QED
    BY <1>5, <1>6 DEF e

LEMMA VerifiedSessionPlanChecks ==
    EntryChecked(VerifiedSessionPlan, FALSE, TRUE, TRUE) /\ Harmless(VerifiedSessionPlan)
  <1> DEFINE e == VerifiedSessionPlan
  <1>1. DOMAIN e = 1..7
    BY DEF VerifiedSessionPlan
  <1>2. \A i \in 1..7 : Applies(e, i) => i = 3
    BY DEF VerifiedSessionPlan, Look, Banner, Survey, Click, Glance, ListButtons, End, Step, Applies
  <1>3. /\ LastLook(e, 2, 3) /\ e[2].do = "look" /\ "nav_surface" \in e[2].gates
        /\ FALSE => "label" \in e[3].gates
        /\ TRUE => "off_boundary" \in e[2].gates
        /\ TRUE => Idle(e, 2, 3)
    BY DEF VerifiedSessionPlan, Look, Banner, Survey, Click, Glance, ListButtons, End, Step, EntryGates, LastLook, Looks, Idle, Acts
  <1>4. \A i \in 1..7 : e[i].do # "fill" /\ ~Continues(e, i)
    BY DEF VerifiedSessionPlan, Look, Banner, Survey, Click, Glance, ListButtons, End, Step, Continues
  <1> HIDE DEF e
  <1>5. EntryChecked(e, FALSE, TRUE, TRUE)
    BY <1>1, <1>2, <1>3 DEF EntryChecked
  <1>6. Harmless(e)
    BY <1>1, <1>4 DEF Harmless
  <1>7. QED
    BY <1>5, <1>6 DEF e

LEMMA SafeFillEntranceChecks ==
    ASSUME NEW policy
    PROVE  EntryChecked(SafeFillEntrance(policy), TRUE, TRUE, FALSE) /\ Entrance(SafeFillEntrance(policy))
  <1> DEFINE e == SafeFillEntrance(policy)
  <1>1. DOMAIN e = 1..6
    BY DEF SafeFillEntrance
  <1>2. \A i \in 1..6 : Applies(e, i) => i = 5
    BY DEF SafeFillEntrance, Look, Banner, Survey, Click, Glance, ListButtons, End, Step, Applies
  <1>3. /\ LastLook(e, 1, 5) /\ e[1].do = "look" /\ "nav_surface" \in e[1].gates
        /\ TRUE => "label" \in e[5].gates
        /\ TRUE => "off_boundary" \in e[1].gates
        /\ FALSE => Idle(e, 1, 5)
    BY DEF SafeFillEntrance, Look, Banner, Survey, Click, Glance, ListButtons, End, Step, EntryGates, LastLook, Looks, Idle, Acts
  <1>4. /\ \A i \in 1..6 : e[i].do \notin {"fill", "readback"} /\ ~Continues(e, i)
        /\ Applies(e, 5)
    BY DEF SafeFillEntrance, Look, Banner, Survey, Click, Glance, ListButtons, End, Step, Continues, Applies
  <1> HIDE DEF e
  <1>5. EntryChecked(e, TRUE, TRUE, FALSE)
    BY <1>1, <1>2, <1>3 DEF EntryChecked
  <1>6. Entrance(e)
    BY <1>1, <1>4 DEF Entrance
  <1>7. QED
    BY <1>5, <1>6 DEF e

LEMMA PreferenceSafeFillEntranceChecks ==
    EntryChecked(PreferenceSafeFillEntrance, TRUE, TRUE, TRUE) /\ Entrance(PreferenceSafeFillEntrance)
  <1> DEFINE e == PreferenceSafeFillEntrance
  <1>1. DOMAIN e = 1..10
    BY DEF PreferenceSafeFillEntrance
  <1>2. \A i \in 1..10 : Applies(e, i) => i = 9
    BY DEF PreferenceSafeFillEntrance, Look, Banner, Survey, Click, Glance, ListButtons, End, Step, Applies
  <1>3. /\ LastLook(e, 8, 9) /\ e[8].do = "look" /\ "nav_surface" \in e[8].gates
        /\ TRUE => "label" \in e[9].gates
        /\ TRUE => "off_boundary" \in e[8].gates
        /\ TRUE => Idle(e, 8, 9)
    BY DEF PreferenceSafeFillEntrance, Look, Banner, Survey, Click, Glance, ListButtons, End, Step, EntryGates, LastLook, Looks, Idle, Acts
  <1>4. /\ \A i \in 1..10 : e[i].do \notin {"fill", "readback"} /\ ~Continues(e, i)
        /\ Applies(e, 9)
    BY DEF PreferenceSafeFillEntrance, Look, Banner, Survey, Click, Glance, ListButtons, End, Step, Continues, Applies
  <1> HIDE DEF e
  <1>5. EntryChecked(e, TRUE, TRUE, TRUE)
    BY <1>1, <1>2, <1>3 DEF EntryChecked
  <1>6. Entrance(e)
    BY <1>1, <1>4 DEF Entrance
  <1>7. QED
    BY <1>5, <1>6 DEF e

LEMMA ContinueEntranceChecks ==
    EntryChecked(ContinueEntrance, TRUE, TRUE, TRUE) /\ Entrance(ContinueEntrance)
  <1> DEFINE e == ContinueEntrance
  <1>1. DOMAIN e = 1..9
    BY DEF ContinueEntrance
  <1>2. \A i \in 1..9 : Applies(e, i) => i = 8
    BY DEF ContinueEntrance, Look, Banner, Survey, Click, Glance, ListButtons, End, Step, Applies
  <1>3. /\ LastLook(e, 7, 8) /\ e[7].do = "look" /\ "nav_surface" \in e[7].gates
        /\ TRUE => "label" \in e[8].gates
        /\ TRUE => "off_boundary" \in e[7].gates
        /\ TRUE => Idle(e, 7, 8)
    BY DEF ContinueEntrance, Look, Banner, Survey, Click, Glance, ListButtons, End, Step, EntryGates, LastLook, Looks, Idle, Acts
  <1>4. /\ \A i \in 1..9 : e[i].do \notin {"fill", "readback"} /\ ~Continues(e, i)
        /\ Applies(e, 8)
    BY DEF ContinueEntrance, Look, Banner, Survey, Click, Glance, ListButtons, End, Step, Continues, Applies
  <1> HIDE DEF e
  <1>5. EntryChecked(e, TRUE, TRUE, TRUE)
    BY <1>1, <1>2, <1>3 DEF EntryChecked
  <1>6. Entrance(e)
    BY <1>1, <1>4 DEF Entrance
  <1>7. QED
    BY <1>5, <1>6 DEF e

LEMMA DiagnosticEntranceChecks ==
    EntryChecked(DiagnosticEntrance, FALSE, FALSE, TRUE) /\ Entrance(DiagnosticEntrance)
  <1> DEFINE e == DiagnosticEntrance
  <1>1. DOMAIN e = 1..9
    BY DEF DiagnosticEntrance
  <1>2. \A i \in 1..9 : Applies(e, i) => i = 8
    BY DEF DiagnosticEntrance, Look, Banner, Survey, Click, Glance, ListButtons, End, Step, Applies
  <1>3. /\ LastLook(e, 7, 8) /\ e[7].do = "look" /\ "nav_surface" \in e[7].gates
        /\ FALSE => "label" \in e[8].gates
        /\ FALSE => "off_boundary" \in e[7].gates
        /\ TRUE => Idle(e, 7, 8)
    BY DEF DiagnosticEntrance, Look, Banner, Survey, Click, Glance, ListButtons, End, Step, EntryGates, LastLook, Looks, Idle, Acts
  <1>4. /\ \A i \in 1..9 : e[i].do \notin {"fill", "readback"} /\ ~Continues(e, i)
        /\ Applies(e, 8)
    BY DEF DiagnosticEntrance, Look, Banner, Survey, Click, Glance, ListButtons, End, Step, Continues, Applies
  <1> HIDE DEF e
  <1>5. EntryChecked(e, FALSE, FALSE, TRUE)
    BY <1>1, <1>2, <1>3 DEF EntryChecked
  <1>6. Entrance(e)
    BY <1>1, <1>4 DEF Entrance
  <1>7. QED
    BY <1>5, <1>6 DEF e

LEMMA ProfileV2EntranceChecks ==
    EntryChecked(ProfileV2Entrance, TRUE, FALSE, TRUE) /\ Entrance(ProfileV2Entrance)
  <1> DEFINE e == ProfileV2Entrance
  <1>1. DOMAIN e = 1..9
    BY DEF ProfileV2Entrance
  <1>2. \A i \in 1..9 : Applies(e, i) => i = 8
    BY DEF ProfileV2Entrance, Look, Banner, Survey, Click, Glance, ListButtons, End, Step, Applies
  <1>3. /\ LastLook(e, 7, 8) /\ e[7].do = "look" /\ "nav_surface" \in e[7].gates
        /\ TRUE => "label" \in e[8].gates
        /\ FALSE => "off_boundary" \in e[7].gates
        /\ TRUE => Idle(e, 7, 8)
    BY DEF ProfileV2Entrance, Look, Banner, Survey, Click, Glance, ListButtons, End, Step, EntryGates, LastLook, Looks, Idle, Acts
  <1>4. /\ \A i \in 1..9 : e[i].do \notin {"fill", "readback"} /\ ~Continues(e, i)
        /\ Applies(e, 8)
    BY DEF ProfileV2Entrance, Look, Banner, Survey, Click, Glance, ListButtons, End, Step, Continues, Applies
  <1> HIDE DEF e
  <1>5. EntryChecked(e, TRUE, FALSE, TRUE)
    BY <1>1, <1>2, <1>3 DEF EntryChecked
  <1>6. Entrance(e)
    BY <1>1, <1>4 DEF Entrance
  <1>7. QED
    BY <1>5, <1>6 DEF e
LEMMA WriteIsBody ==
    ASSUME NEW field, NEW guards
    PROVE  Body(Write(field, guards))
  <1> DEFINE w == Write(field, guards)
  <1>1. DOMAIN w = 1..2
    BY DEF Write
  <1>2. w[1].do = "fill" /\ w[2].do = "readback" /\ w[1].on = field /\ w[2].on = field
    BY DEF Write, Step
  <1> HIDE DEF w
  <1>3. 1 \in DOMAIN w /\ 2 \in DOMAIN w /\ \A i \in DOMAIN w : i = 1 \/ i = 2
    BY <1>1
  <1>4. Body(w)
    BY <1>2, <1>3 DEF Body
  <1>5. QED
    BY <1>4 DEF w

LEMMA BodiesJoin ==
    ASSUME NEW a, NEW b, Listed(a), Listed(b), Body(a), Body(b)
    PROVE  Body(a \o b) /\ Listed(a \o b)
  <1> DEFINE u == a \o b
  <1>1. /\ Listed(u)
        /\ \A i \in DOMAIN a : u[i] = a[i] /\ i \in DOMAIN u
        /\ \A i \in DOMAIN b : u[Len(a) + i] = b[i] /\ Len(a) + i \in DOMAIN u
        /\ \A i \in DOMAIN u : i \in DOMAIN a \/ (i - Len(a) \in DOMAIN b /\ u[i] = b[i - Len(a)])
    BY Concatenation
  <1> HIDE DEF u
  <1>2. ASSUME NEW i \in DOMAIN u
        PROVE  (\E x \in DOMAIN a : u[i] = a[x]) \/ (\E x \in DOMAIN b : u[i] = b[x])
    BY <1>1
  <1>3. /\ \A x \in DOMAIN a : \E i \in DOMAIN u : u[i] = a[x]
        /\ \A x \in DOMAIN b : \E i \in DOMAIN u : u[i] = b[x]
    BY <1>1
  <1>4. /\ \A i \in DOMAIN u : u[i].do \in {"fill", "readback"}
        /\ \E i \in DOMAIN u : u[i].do = "fill"
    BY <1>2, <1>3 DEF Body
  <1>5. ASSUME NEW i \in DOMAIN u, u[i].do = "fill"
        PROVE  \E j \in DOMAIN u : u[j].do = "readback" /\ u[j].on = u[i].on
    BY <1>2, <1>3, <1>5 DEF Body
  <1>6. ASSUME NEW j \in DOMAIN u, u[j].do = "readback"
        PROVE  \E i \in DOMAIN u : u[i].do = "fill" /\ u[i].on = u[j].on
    BY <1>2, <1>3, <1>6 DEF Body
  <1>7. Body(u)
    BY <1>4, <1>5, <1>6 DEF Body
  <1>8. QED
    BY <1>1, <1>7 DEF u

LEMMA BodiesOfPlans ==
    ASSUME NEW guards
    PROVE  /\ Body(IdentityWrites(guards)) /\ Listed(IdentityWrites(guards))
           /\ Body(PhoneWrites(guards)) /\ Listed(PhoneWrites(guards))
  <1> DEFINE w(field) == Write(field, guards)
  <1>1. \A field : Body(w(field)) /\ Listed(w(field))
    BY WriteIsBody, WritePiece DEF Piece
  <1> HIDE DEF w
  <1>2. Body(w("first_name") \o w("last_name")) /\ Listed(w("first_name") \o w("last_name"))
    BY <1>1, BodiesJoin
  <1>3. /\ Body((w("first_name") \o w("last_name")) \o w("email"))
        /\ Listed((w("first_name") \o w("last_name")) \o w("email"))
    BY <1>1, <1>2, BodiesJoin
  <1>4. Body(w("phone_country") \o w("phone_number")) /\ Listed(w("phone_country") \o w("phone_number"))
    BY <1>1, BodiesJoin
  <1>5. QED
    BY <1>3, <1>4 DEF IdentityWrites, PhoneWrites, w

LEMMA OpeningsOfPlans ==
    /\ Opening(<< Look(FormGates) >>) /\ Opening(<< Look({"off_boundary", "fill_surface"}) >>)
    /\ Opening(<< Look({"off_boundary", "fill_surface"}), Glance({"phone_surface"}, TRUE) >>)
  <1>1. Opening(<< Look(FormGates) >>)
    BY DEF Opening, Look, Step, FormGates
  <1>2. Opening(<< Look({"off_boundary", "fill_surface"}) >>)
    BY DEF Opening, Look, Step
  <1>3. Opening(<< Look({"off_boundary", "fill_surface"}), Glance({"phone_surface"}, TRUE) >>)
    BY DEF Opening, Look, Glance, Step
  <1>4. QED
    BY <1>1, <1>2, <1>3

LEMMA FillTailEnds ==
    LET t == << Look({"fill_surface"}), ListButtons, End("filled_verified") >>
    IN  Ending(t, TRUE) /\ \A i \in DOMAIN t : ~Applies(t, i)
  <1> DEFINE t == << Look({"fill_surface"}), ListButtons, End("filled_verified") >>
  <1>1. DOMAIN t = 1..3
    OBVIOUS
  <1>2. \A i \in 1..3 : t[i].do \notin {"fill", "readback"} /\ ~Applies(t, i)
    BY DEF Look, Glance, ListButtons, Diagnose, Click, End, Step, Applies
  <1>3. \A i \in 1..3 : ~Continues(t, i)
    BY DEF Look, Glance, ListButtons, Diagnose, Click, End, Step, Continues
  <1> HIDE DEF t
  <1>6. Ending(t, TRUE)
    BY <1>1, <1>2, <1>3 DEF Ending
  <1>7. QED
    BY <1>1, <1>2, <1>6 DEF t

LEMMA ContinueTailEnds ==
    LET t == << Look({"fill_surface"}), Glance({"actions"}, FALSE), Click("continue", {"label"}, FALSE),
              Glance({"one_tab"}, FALSE), Look({}), End("continued_inspected") >>
    IN  Ending(t, TRUE) /\ \A i \in DOMAIN t : ~Applies(t, i)
  <1> DEFINE t == << Look({"fill_surface"}), Glance({"actions"}, FALSE), Click("continue", {"label"}, FALSE),
              Glance({"one_tab"}, FALSE), Look({}), End("continued_inspected") >>
  <1>1. DOMAIN t = 1..6
    OBVIOUS
  <1>2. \A i \in 1..6 : t[i].do \notin {"fill", "readback"} /\ ~Applies(t, i)
    BY DEF Look, Glance, ListButtons, Diagnose, Click, End, Step, Applies
  <1>3. \A i \in 1..6 : Continues(t, i) => i = 3
    BY DEF Look, Glance, ListButtons, Diagnose, Click, End, Step, Continues
  <1>4. t[2].do = "glance" /\ "actions" \in t[2].gates /\ Idle(t, 2, 3)
    BY DEF Look, Glance, Diagnose, Click, End, Step, Idle, Acts
  <1>5. /\ LastLook(t, 1, 3) /\ t[1].do = "look" /\ "fill_surface" \in t[1].gates
        /\ Idle(t, 1, 3)
    BY DEF Look, Glance, Diagnose, Click, End, Step, LastLook, Looks, Idle, Acts
  <1> HIDE DEF t
  <1>6. Ending(t, TRUE)
    BY <1>1, <1>2, <1>3, <1>4, <1>5 DEF Ending
  <1>7. QED
    BY <1>1, <1>2, <1>6 DEF t

LEMMA DiagnosticTailEnds ==
    LET t == << Look({"fill_surface"}), Glance({"actions"}, FALSE), Click("continue", {"label"}, TRUE),
              Glance({"one_tab"}, FALSE), Look({}), Diagnose, End("diagnosed") >>
    IN  Ending(t, TRUE) /\ \A i \in DOMAIN t : ~Applies(t, i)
  <1> DEFINE t == << Look({"fill_surface"}), Glance({"actions"}, FALSE), Click("continue", {"label"}, TRUE),
              Glance({"one_tab"}, FALSE), Look({}), Diagnose, End("diagnosed") >>
  <1>1. DOMAIN t = 1..7
    OBVIOUS
  <1>2. \A i \in 1..7 : t[i].do \notin {"fill", "readback"} /\ ~Applies(t, i)
    BY DEF Look, Glance, ListButtons, Diagnose, Click, End, Step, Applies
  <1>3. \A i \in 1..7 : Continues(t, i) => i = 3
    BY DEF Look, Glance, ListButtons, Diagnose, Click, End, Step, Continues
  <1>4. t[2].do = "glance" /\ "actions" \in t[2].gates /\ Idle(t, 2, 3)
    BY DEF Look, Glance, Diagnose, Click, End, Step, Idle, Acts
  <1>5. /\ LastLook(t, 1, 3) /\ t[1].do = "look" /\ "fill_surface" \in t[1].gates
        /\ Idle(t, 1, 3)
    BY DEF Look, Glance, Diagnose, Click, End, Step, LastLook, Looks, Idle, Acts
  <1> HIDE DEF t
  <1>6. Ending(t, TRUE)
    BY <1>1, <1>2, <1>3, <1>4, <1>5 DEF Ending
  <1>7. QED
    BY <1>1, <1>2, <1>6 DEF t

LEMMA ProfileTailEnds ==
    LET t == << Glance({"actions"}, FALSE), Click("continue", {}, FALSE), Look({}), Diagnose,
              End("diagnosed") >>
    IN  Ending(t, FALSE) /\ \A i \in DOMAIN t : ~Applies(t, i)
  <1> DEFINE t == << Glance({"actions"}, FALSE), Click("continue", {}, FALSE), Look({}), Diagnose,
              End("diagnosed") >>
  <1>1. DOMAIN t = 1..5
    OBVIOUS
  <1>2. \A i \in 1..5 : t[i].do \notin {"fill", "readback"} /\ ~Applies(t, i)
    BY DEF Look, Glance, ListButtons, Diagnose, Click, End, Step, Applies
  <1>3. \A i \in 1..5 : Continues(t, i) => i = 2
    BY DEF Look, Glance, ListButtons, Diagnose, Click, End, Step, Continues
  <1>4. t[1].do = "glance" /\ "actions" \in t[1].gates /\ Idle(t, 1, 2)
    BY DEF Look, Glance, Diagnose, Click, End, Step, Idle, Acts
  <1>5. \A m \in 1..5 : m < 2 => ~Looks(t, m)
    BY DEF Look, Glance, Diagnose, Click, End, Step, Looks
  <1> HIDE DEF t
  <1>6. Ending(t, FALSE)
    BY <1>1, <1>2, <1>3, <1>4, <1>5 DEF Ending
  <1>7. QED
    BY <1>1, <1>2, <1>6 DEF t

LEMMA WritingPlans ==
    ASSUME NEW e, NEW l, NEW b, NEW t, NEW labelled, NEW bounded, NEW idle, NEW fresh,
           Listed(e), Listed(l), Listed(b), Listed(t),
           EntryChecked(e, labelled, bounded, idle), Entrance(e), Opening(l), Body(b), Ending(t, fresh),
           \A i \in DOMAIN t : ~Applies(t, i)
    PROVE  LET plan == ((e \o l) \o b) \o t
           IN  EntryChecked(plan, labelled, bounded, idle) /\ WritesChecked(plan) /\ ContinueChecked(plan, fresh)
  <1>1. (\A i \in DOMAIN l : ~Applies(l, i)) /\ (\A i \in DOMAIN b : ~Applies(b, i))
    BY DEF Opening, Body, Applies
  <1>2. Listed(e \o l) /\ EntryChecked(e \o l, labelled, bounded, idle) /\ FormOpened(e \o l, Len(e) + 1)
    BY <1>1, Concatenation, EntrancesCheck, OpeningOpens
  <1> DEFINE s == (e \o l) \o b
  <1>3. /\ Listed(s) /\ EntryChecked(s, labelled, bounded, idle) /\ FormOpened(s, Len(e) + 1)
        /\ \E i \in DOMAIN s : s[i].do = "fill"
    <2>1. Listed(s)
      BY <1>2, Concatenation
    <2>2. EntryChecked(s, labelled, bounded, idle)
      BY <1>1, <1>2, EntrancesCheck
    <2>3. FormOpened(s, Len(e) + 1) /\ \E i \in DOMAIN s : s[i].do = "fill"
      BY <1>2, BodyKeepsOpened
    <2>4. QED
      BY <2>1, <2>2, <2>3
  <1> HIDE DEF s
  <1>4. EntryChecked(s \o t, labelled, bounded, idle)
    BY <1>3, EntrancesCheck
  <1>5. WritesChecked(s \o t) /\ ContinueChecked(s \o t, fresh)
    BY <1>3, TailChecks
  <1>6. QED
    BY <1>4, <1>5 DEF s

LEMMA ProfilePlan ==
    ASSUME NEW e, NEW l, NEW b, NEW c, NEW t, NEW labelled, NEW bounded, NEW idle, NEW fresh,
           Listed(e), Listed(l), Listed(b), Listed(c), Listed(t),
           EntryChecked(e, labelled, bounded, idle), Entrance(e), Opening(l), Body(b), Body(c),
           Ending(t, fresh), \A i \in DOMAIN t : ~Applies(t, i)
    PROVE  LET plan == (((e \o l) \o b) \o c) \o t
           IN  EntryChecked(plan, labelled, bounded, idle) /\ WritesChecked(plan) /\ ContinueChecked(plan, fresh)
  <1>1. /\ \A i \in DOMAIN l : ~Applies(l, i)
        /\ \A i \in DOMAIN b : ~Applies(b, i)
        /\ \A i \in DOMAIN c : ~Applies(c, i)
    BY DEF Opening, Body, Applies
  <1>2. Listed(e \o l) /\ EntryChecked(e \o l, labelled, bounded, idle) /\ FormOpened(e \o l, Len(e) + 1)
    BY <1>1, Concatenation, EntrancesCheck, OpeningOpens
  <1> DEFINE r == (e \o l) \o b
  <1>3. Listed(r) /\ EntryChecked(r, labelled, bounded, idle) /\ FormOpened(r, Len(e) + 1)
    <2>1. Listed(r)
      BY <1>2, Concatenation
    <2>2. EntryChecked(r, labelled, bounded, idle)
      BY <1>1, <1>2, EntrancesCheck
    <2>3. FormOpened(r, Len(e) + 1)
      BY <1>2, BodyKeepsOpened
    <2>4. QED
      BY <2>1, <2>2, <2>3
  <1> HIDE DEF r
  <1> DEFINE s == r \o c
  <1>4. /\ Listed(s) /\ EntryChecked(s, labelled, bounded, idle) /\ FormOpened(s, Len(e) + 1)
        /\ \E i \in DOMAIN s : s[i].do = "fill"
    <2>1. Listed(s)
      BY <1>3, Concatenation
    <2>2. EntryChecked(s, labelled, bounded, idle)
      BY <1>1, <1>3, EntrancesCheck
    <2>3. FormOpened(s, Len(e) + 1) /\ \E i \in DOMAIN s : s[i].do = "fill"
      BY <1>3, BodyKeepsOpened
    <2>4. QED
      BY <2>1, <2>2, <2>3
  <1> HIDE DEF s
  <1>5. EntryChecked(s \o t, labelled, bounded, idle)
    BY <1>4, EntrancesCheck
  <1>6. WritesChecked(s \o t) /\ ContinueChecked(s \o t, fresh)
    BY <1>4, TailChecks
  <1>7. QED
    BY <1>5, <1>6 DEF r, s

LEMMA SafeFillPlanChecks ==
    ASSUME NEW policy
    PROVE  EntryChecked(SafeFillPlan(policy), TRUE, TRUE, FALSE) /\ WritesChecked(SafeFillPlan(policy)) /\ ContinueChecked(SafeFillPlan(policy), TRUE)
  <1> DEFINE e == SafeFillEntrance(policy)
             l == << Look(FormGates) >>
             b == IdentityWrites({"located", "filled"})
             t == << Look({"fill_surface"}), ListButtons, End("filled_verified") >>
  <1>1. Listed(e) /\ Listed(l) /\ Listed(b) /\ Listed(t)
    BY SafeFillEntrancePiece, LookPiece, BodiesOfPlans, FillTailPiece DEF Piece
  <1>2. EntryChecked(e, TRUE, TRUE, FALSE) /\ Entrance(e)
    BY SafeFillEntranceChecks
  <1>3. Opening(l) /\ Body(b)
    BY OpeningsOfPlans, BodiesOfPlans
  <1>4. Ending(t, TRUE) /\ \A i \in DOMAIN t : ~Applies(t, i)
    BY FillTailEnds
  <1> HIDE DEF e, l, b, t
  <1>5. LET plan == ((e \o l) \o b) \o t
        IN  EntryChecked(plan, TRUE, TRUE, FALSE) /\ WritesChecked(plan) /\ ContinueChecked(plan, TRUE)
    BY <1>1, <1>2, <1>3, <1>4, WritingPlans
  <1>6. QED
    BY <1>5 DEF SafeFillPlan, e, l, b, t

LEMMA PreferenceSafeFillPlanChecks ==
    EntryChecked(PreferenceSafeFillPlan, TRUE, TRUE, TRUE) /\ WritesChecked(PreferenceSafeFillPlan) /\ ContinueChecked(PreferenceSafeFillPlan, TRUE)
  <1> DEFINE e == PreferenceSafeFillEntrance
             l == << Look(FormGates) >>
             b == IdentityWrites({"located", "filled"})
             t == << Look({"fill_surface"}), ListButtons, End("filled_verified") >>
  <1>1. Listed(e) /\ Listed(l) /\ Listed(b) /\ Listed(t)
    BY PreferenceSafeFillEntrancePiece, LookPiece, BodiesOfPlans, FillTailPiece DEF Piece
  <1>2. EntryChecked(e, TRUE, TRUE, TRUE) /\ Entrance(e)
    BY PreferenceSafeFillEntranceChecks
  <1>3. Opening(l) /\ Body(b)
    BY OpeningsOfPlans, BodiesOfPlans
  <1>4. Ending(t, TRUE) /\ \A i \in DOMAIN t : ~Applies(t, i)
    BY FillTailEnds
  <1> HIDE DEF e, l, b, t
  <1>5. LET plan == ((e \o l) \o b) \o t
        IN  EntryChecked(plan, TRUE, TRUE, TRUE) /\ WritesChecked(plan) /\ ContinueChecked(plan, TRUE)
    BY <1>1, <1>2, <1>3, <1>4, WritingPlans
  <1>6. QED
    BY <1>5 DEF PreferenceSafeFillPlan, e, l, b, t

LEMMA ContinuePlanChecks ==
    EntryChecked(ContinuePlan, TRUE, TRUE, TRUE) /\ WritesChecked(ContinuePlan) /\ ContinueChecked(ContinuePlan, TRUE)
  <1> DEFINE e == ContinueEntrance
             l == << Look(FormGates) >>
             b == IdentityWrites({"located", "filled"})
             t == << Look({"fill_surface"}), Glance({"actions"}, FALSE), Click("continue", {"label"}, FALSE),
              Glance({"one_tab"}, FALSE), Look({}), End("continued_inspected") >>
  <1>1. Listed(e) /\ Listed(l) /\ Listed(b) /\ Listed(t)
    BY ContinueEntrancePiece, LookPiece, BodiesOfPlans, ContinueTailPiece DEF Piece
  <1>2. EntryChecked(e, TRUE, TRUE, TRUE) /\ Entrance(e)
    BY ContinueEntranceChecks
  <1>3. Opening(l) /\ Body(b)
    BY OpeningsOfPlans, BodiesOfPlans
  <1>4. Ending(t, TRUE) /\ \A i \in DOMAIN t : ~Applies(t, i)
    BY ContinueTailEnds
  <1> HIDE DEF e, l, b, t
  <1>5. LET plan == ((e \o l) \o b) \o t
        IN  EntryChecked(plan, TRUE, TRUE, TRUE) /\ WritesChecked(plan) /\ ContinueChecked(plan, TRUE)
    BY <1>1, <1>2, <1>3, <1>4, WritingPlans
  <1>6. QED
    BY <1>5 DEF ContinuePlan, e, l, b, t

LEMMA DiagnosticPlanChecks ==
    EntryChecked(DiagnosticPlan, FALSE, FALSE, TRUE) /\ WritesChecked(DiagnosticPlan) /\ ContinueChecked(DiagnosticPlan, TRUE)
  <1> DEFINE e == DiagnosticEntrance
             l == << Look({"off_boundary", "fill_surface"}) >>
             b == IdentityWrites({})
             t == << Look({"fill_surface"}), Glance({"actions"}, FALSE), Click("continue", {"label"}, TRUE),
              Glance({"one_tab"}, FALSE), Look({}), Diagnose, End("diagnosed") >>
  <1>1. Listed(e) /\ Listed(l) /\ Listed(b) /\ Listed(t)
    BY DiagnosticEntrancePiece, LookPiece, BodiesOfPlans, DiagnosticTailPiece DEF Piece
  <1>2. EntryChecked(e, FALSE, FALSE, TRUE) /\ Entrance(e)
    BY DiagnosticEntranceChecks
  <1>3. Opening(l) /\ Body(b)
    BY OpeningsOfPlans, BodiesOfPlans
  <1>4. Ending(t, TRUE) /\ \A i \in DOMAIN t : ~Applies(t, i)
    BY DiagnosticTailEnds
  <1> HIDE DEF e, l, b, t
  <1>5. LET plan == ((e \o l) \o b) \o t
        IN  EntryChecked(plan, FALSE, FALSE, TRUE) /\ WritesChecked(plan) /\ ContinueChecked(plan, TRUE)
    BY <1>1, <1>2, <1>3, <1>4, WritingPlans
  <1>6. QED
    BY <1>5 DEF DiagnosticPlan, e, l, b, t

LEMMA ProfileV2PlanChecks ==
    EntryChecked(ProfileV2Plan, TRUE, FALSE, TRUE) /\ WritesChecked(ProfileV2Plan) /\ ContinueChecked(ProfileV2Plan, FALSE)
  <1> DEFINE e == ProfileV2Entrance
             l == << Look({"off_boundary", "fill_surface"}), Glance({"phone_surface"}, TRUE) >>
             b == IdentityWrites({"located", "filled", "read"})
             c == PhoneWrites({"located", "filled", "read"})
             t == << Glance({"actions"}, FALSE), Click("continue", {}, FALSE), Look({}), Diagnose,
              End("diagnosed") >>
  <1>1. Listed(e) /\ Listed(l) /\ Listed(b) /\ Listed(c) /\ Listed(t)
    BY ProfileV2EntrancePiece, ProfileLookPiece, BodiesOfPlans, ProfileTailPiece DEF Piece
  <1>2. EntryChecked(e, TRUE, FALSE, TRUE) /\ Entrance(e)
    BY ProfileV2EntranceChecks
  <1>3. Opening(l) /\ Body(b) /\ Body(c)
    BY OpeningsOfPlans, BodiesOfPlans
  <1>4. Ending(t, FALSE) /\ \A i \in DOMAIN t : ~Applies(t, i)
    BY ProfileTailEnds
  <1> HIDE DEF e, l, b, c, t
  <1>5. LET plan == (((e \o l) \o b) \o c) \o t
        IN  EntryChecked(plan, TRUE, FALSE, TRUE) /\ WritesChecked(plan) /\ ContinueChecked(plan, FALSE)
    BY <1>1, <1>2, <1>3, <1>4, ProfilePlan
  <1>6. QED
    BY <1>5 DEF ProfileV2Plan, e, l, b, c, t

LEMMA HarmlessPlansCheck ==
    ASSUME NEW s, NEW fresh, Harmless(s)
    PROVE  WritesChecked(s) /\ ContinueChecked(s, fresh)
  BY DEF Harmless, WritesChecked, ContinueChecked

LEMMA WeakerEntryCheck ==
    ASSUME NEW s, NEW labelled, NEW bounded, NEW idle, EntryChecked(s, TRUE, TRUE, TRUE)
    PROVE  EntryChecked(s, labelled, bounded, idle)
  BY DEF EntryChecked

(* The exceptions of the properties are the checks a plan lacks. *)
LEMMA PlansCheck ==
    ASSUME NEW c \in Canaries
    PROVE  /\ EntryChecked(Plan(c), c \notin {"diagnostic", "verified_session"},
                           c \notin {"diagnostic", "profile_v2"}, c \notin {"safe_fill", "safe_fill_deny"})
           /\ WritesChecked(Plan(c)) /\ ContinueChecked(Plan(c), c # "profile_v2")
           /\ c \in {"navigation", "cookie_preferences", "phone_contract"} => Harmless(Plan(c))
  <1> DEFINE labelled == c \notin {"diagnostic", "verified_session"}
             bounded  == c \notin {"diagnostic", "profile_v2"}
             idle     == c \notin {"safe_fill", "safe_fill_deny"}
             fresh    == c # "profile_v2"
             Checked  == /\ EntryChecked(Plan(c), labelled, bounded, idle)
                         /\ WritesChecked(Plan(c)) /\ ContinueChecked(Plan(c), fresh)
                         /\ c \in {"navigation", "cookie_preferences", "phone_contract"} => Harmless(Plan(c))
  <1> SUFFICES Checked
    OBVIOUS
  <1>1. CASE c = "navigation"
    <2>1. /\ Plan(c) = NavigationPlan /\ labelled = TRUE /\ bounded = TRUE /\ idle = TRUE /\ fresh = TRUE
      BY <1>1 DEF Plan
    <2> HIDE DEF labelled, bounded, idle, fresh, Checked
    <2>2. QED
      BY <2>1, NavigationPlanChecks, HarmlessPlansCheck DEF Checked
  <1>2. CASE c = "cookie_preferences"
    <2>1. /\ Plan(c) = CookiePreferencesPlan /\ labelled = TRUE /\ bounded = TRUE /\ idle = TRUE /\ fresh = TRUE
      BY <1>2 DEF Plan
    <2> HIDE DEF labelled, bounded, idle, fresh, Checked
    <2>2. QED
      BY <2>1, CookiePreferencesPlanChecks, HarmlessPlansCheck DEF Checked
  <1>3. CASE c = "phone_contract"
    <2>1. /\ Plan(c) = PhoneContractPlan /\ labelled = TRUE /\ bounded = TRUE /\ idle = TRUE /\ fresh = TRUE
      BY <1>3 DEF Plan
    <2> HIDE DEF labelled, bounded, idle, fresh, Checked
    <2>2. QED
      BY <2>1, PhoneContractPlanChecks, HarmlessPlansCheck DEF Checked
  <1>4. CASE c = "live_inspection"
    <2>1. /\ Plan(c) = LiveInspectionPlan /\ labelled = TRUE /\ bounded = TRUE /\ idle = TRUE /\ fresh = TRUE
      BY <1>4 DEF Plan
    <2> HIDE DEF labelled, bounded, idle, fresh, Checked
    <2>2. QED
      BY <2>1, LiveInspectionPlanChecks, HarmlessPlansCheck DEF Checked
  <1>5. CASE c = "verified_session"
    <2>1. /\ Plan(c) = VerifiedSessionPlan /\ labelled = FALSE /\ bounded = TRUE /\ idle = TRUE /\ fresh = TRUE
      BY <1>5 DEF Plan
    <2> HIDE DEF labelled, bounded, idle, fresh, Checked
    <2>2. QED
      BY <2>1, VerifiedSessionPlanChecks, HarmlessPlansCheck DEF Checked
  <1>6. CASE c = "safe_fill"
    <2>1. /\ Plan(c) = SafeFillPlan("block") /\ labelled = TRUE /\ bounded = TRUE /\ idle = FALSE /\ fresh = TRUE
          /\ c \notin {"navigation", "cookie_preferences", "phone_contract"}
      BY <1>6 DEF Plan
    <2> HIDE DEF labelled, bounded, idle, fresh, Checked
    <2>2. QED
      BY <2>1, SafeFillPlanChecks DEF Checked
  <1>7. CASE c = "safe_fill_deny"
    <2>1. /\ Plan(c) = SafeFillPlan("deny_optional") /\ labelled = TRUE /\ bounded = TRUE /\ idle = FALSE /\ fresh = TRUE
          /\ c \notin {"navigation", "cookie_preferences", "phone_contract"}
      BY <1>7 DEF Plan
    <2> HIDE DEF labelled, bounded, idle, fresh, Checked
    <2>2. QED
      BY <2>1, SafeFillPlanChecks DEF Checked
  <1>8. CASE c = "preference_safe_fill"
    <2>1. /\ Plan(c) = PreferenceSafeFillPlan /\ labelled = TRUE /\ bounded = TRUE /\ idle = TRUE /\ fresh = TRUE
          /\ c \notin {"navigation", "cookie_preferences", "phone_contract"}
      BY <1>8 DEF Plan
    <2> HIDE DEF labelled, bounded, idle, fresh, Checked
    <2>2. QED
      BY <2>1, PreferenceSafeFillPlanChecks DEF Checked
  <1>9. CASE c = "continue"
    <2>1. /\ Plan(c) = ContinuePlan /\ labelled = TRUE /\ bounded = TRUE /\ idle = TRUE /\ fresh = TRUE
          /\ c \notin {"navigation", "cookie_preferences", "phone_contract"}
      BY <1>9 DEF Plan
    <2> HIDE DEF labelled, bounded, idle, fresh, Checked
    <2>2. QED
      BY <2>1, ContinuePlanChecks DEF Checked
  <1>10. CASE c = "diagnostic"
    <2>1. /\ Plan(c) = DiagnosticPlan /\ labelled = FALSE /\ bounded = FALSE /\ idle = TRUE /\ fresh = TRUE
          /\ c \notin {"navigation", "cookie_preferences", "phone_contract"}
      BY <1>10 DEF Plan
    <2> HIDE DEF labelled, bounded, idle, fresh, Checked
    <2>2. QED
      BY <2>1, DiagnosticPlanChecks DEF Checked
  <1>11. CASE c = "profile_v2"
    <2>1. /\ Plan(c) = ProfileV2Plan /\ labelled = TRUE /\ bounded = FALSE /\ idle = TRUE /\ fresh = FALSE
          /\ c \notin {"navigation", "cookie_preferences", "phone_contract"}
      BY <1>11 DEF Plan
    <2> HIDE DEF labelled, bounded, idle, fresh, Checked
    <2>2. QED
      BY <2>1, ProfileV2PlanChecks DEF Checked
  <1>12. QED
    BY <1>1, <1>2, <1>3, <1>4, <1>5, <1>6, <1>7, <1>8, <1>9, <1>10, <1>11 DEF Canaries

-----------------------------------------------------------------------------
(* The canaries: what they do, and what they checked before. *)

ReadBacks(s, n) == {s[i].on : i \in {j \in DOMAIN s : j < n /\ s[j].do = "readback"}}

(* The targets read back are those of the readbacks behind the run. *)
ReadBackBehind == pc # 0 => verified = ReadBacks(Course, pc)

SeesButtons(s, i) == s[i].do = "glance" /\ "actions" \in s[i].gates

(* The buttons were seen after everything but what was done since. *)
ButtonsSeen ==
    pc # 0 => \A g \in DOMAIN Course :
        g < pc /\ SeesButtons(Course, g) /\ Idle(Course, g, pc) => actionsSeen = Done

(* From a look no write was before, until a click, only writes are done. *)
WritesSinceLook ==
    pc # 0 => \A k \in DOMAIN Course :
        /\ LastLook(Course, k, pc)
        /\ \A m \in DOMAIN Course : k < m /\ m < pc => Course[m].do # "click"
        /\ \A m \in DOMAIN Course : m < k => Course[m].do # "fill"
        => seen.time = Done - landed["write"]

(* A banner is not denied under the policy "block", so the run comes to     *)
(* Apply, its fifth step, without a click.                                  *)
BannerBlocks ==
    canary = "safe_fill" => pc \notin {3, 4} /\ (pc \in {2, 5} => seen.time = Done)

ChecksInv == ReadBackBehind /\ ButtonsSeen /\ WritesSinceLook /\ BannerBlocks

(* What a step learns of the targets and of the buttons, if it goes on. *)
LEMMA TargetsLearnt ==
    ASSUME Next, pc' # 0
    PROVE  \/ verified' = verified /\ (pc' = pc \/ step.do # "readback")
           \/ verified' = verified \cup {step.on} /\ pc' = pc + 1 /\ step.do = "readback"
  <1> DEFINE Learnt == \/ verified' = verified /\ (pc' = pc \/ step.do # "readback")
                       \/ verified' = verified \cup {step.on} /\ pc' = pc + 1 /\ step.do = "readback"
  <1> USE DEF At, Steady, Unaimed, SameRun, Counted, Untouched, Goto, Blocked, Escapes, Return
  <1>1. ASSUME Drift \/ Exception \/ ReadForm PROVE Learnt
    BY <1>1 DEF Drift, Exception, ReadForm
  <1>2. ASSUME LookStep \/ GlanceStep \/ SurveyStep \/ BannerStep PROVE Learnt
    BY <1>2 DEF LookStep, GlanceStep, SurveyStep, BannerStep
  <1>3. ASSUME Unresolved \/ Resolved \/ ClickStep PROVE Learnt
    BY <1>3 DEF Unresolved, Resolved, Aim, ClickStep
  <1>4. ASSUME NotLocated \/ AlreadyHeld \/ Fill \/ Finish PROVE Learnt
    BY <1>4 DEF NotLocated, AlreadyHeld, Fill, Finish
  <1>5. ASSUME ReadBack PROVE Learnt
    BY <1>5 DEF ReadBack
  <1>6. QED
    BY <1>1, <1>2, <1>3, <1>4, <1>5 DEF Next

LEMMA ButtonsLearnt ==
    ASSUME Next, pc' # 0
    PROVE  \/ actionsSeen' = actionsSeen /\ (pc' = pc \/ ~SeesButtons(Course, pc))
           \/ actionsSeen' = Done /\ landed' = landed
  <1> DEFINE Learnt == \/ actionsSeen' = actionsSeen /\ (pc' = pc \/ ~SeesButtons(Course, pc))
                       \/ actionsSeen' = Done /\ landed' = landed
  <1> USE DEF At, Steady, Unaimed, SameRun, Counted, Untouched, Goto, Blocked, Escapes, Return
  <1>1. ASSUME Drift \/ Exception \/ ReadForm PROVE Learnt
    BY <1>1 DEF Drift, Exception, ReadForm
  <1>2. step = Course[pc]
    BY DEF step, Course
  <1>3. ASSUME LookStep \/ SurveyStep \/ BannerStep PROVE Learnt
    <2>1. actionsSeen' = actionsSeen /\ step.do # "glance"
      BY <1>3 DEF LookStep, SurveyStep, BannerStep
    <2>2. QED
      BY <1>2, <2>1 DEF SeesButtons
  <1>4. ASSUME GlanceStep PROVE Learnt
    <2>1. /\ pc' = pc + 1 /\ landed' = landed
          /\ \A g \in step.gates : GlancePasses(g, page)
          /\ actionsSeen' = IF "actions" \in step.gates /\ page.actions = "reviewed" THEN Done ELSE actionsSeen
      BY <1>4 DEF GlanceStep
    <2>2. CASE "actions" \in step.gates
      <3>1. page.actions = "reviewed"
        BY <2>1, <2>2 DEF GlancePasses
      <3>2. QED
        BY <2>1, <2>2, <3>1
    <2>3. CASE "actions" \notin step.gates
      BY <1>2, <2>1, <2>3 DEF SeesButtons
    <2>4. QED
      BY <2>2, <2>3
  <1>5. ASSUME Unresolved \/ Resolved \/ ClickStep PROVE Learnt
    <2>1. actionsSeen' = actionsSeen /\ step.do # "glance"
      BY <1>5 DEF Unresolved, Resolved, Aim, ClickStep
    <2>2. QED
      BY <1>2, <2>1 DEF SeesButtons
  <1>6. ASSUME NotLocated \/ AlreadyHeld \/ Fill \/ ReadBack \/ Finish PROVE Learnt
    <2>1. actionsSeen' = actionsSeen /\ step.do # "glance"
      BY <1>6 DEF NotLocated, AlreadyHeld, Fill, ReadBack, Finish
    <2>2. QED
      BY <1>2, <2>1 DEF SeesButtons
  <1>7. QED
    BY <1>1, <1>3, <1>4, <1>5, <1>6 DEF Next

(* Only where denying is allowed does a run go on from a banner to the click. *)
LEMMA BannersMove ==
    ASSUME Next, pc \in Nat, step.do = "banner", pc' = pc + 1
    PROVE  step.on = "deny_optional"
  <1> USE DEF At, Steady, Unaimed, SameRun, Goto, Blocked, Escapes, Return
  <1>1. ASSUME BannerStep PROVE step.on = "deny_optional"
    BY <1>1 DEF BannerStep
  <1>2. ASSUME ~BannerStep PROVE pc' \in {0, pc}
    BY <1>2 DEF Next, Drift, Exception, ReadForm, LookStep, GlanceStep, SurveyStep,
       Unresolved, Resolved, Aim, ClickStep, NotLocated, AlreadyHeld, Fill, ReadBack, Finish
  <1>3. QED
    BY <1>1, <1>2

(* What a run passes over besides the step it was at is neither a look, nor *)
(* a readback, nor a glance at the buttons.                                 *)
LEMMA Passed ==
    ASSUME CountsTyped, Moved, pc' # 0, NEW i \in DOMAIN Course, pc <= i, i < pc'
    PROVE  \/ i = pc /\ pc' = pc + 1
           \/ Course[i].do \in {"banner", "click", "glance"} /\ ~SeesButtons(Course, i)
  <1>1. /\ pc # 0 /\ pc \in DOMAIN Course /\ pc \in Nat /\ step = Course[pc]
        /\ DOMAIN Course \subseteq Nat /\ BannersSkip(Course)
    BY CourseIsSound DEF Moved, step, Course, Sound
  <1>2. CASE pc' = pc + 1
    BY <1>1, <1>2
  <1>3. CASE step.do = "banner" /\ pc' = pc + 3
    <2>1. i \in {pc, pc + 1, pc + 2}
      BY <1>1, <1>3
    <2>2. \A m \in {pc + 1, pc + 2} : Course[m].do \in {"click", "glance"} /\ "actions" \notin Course[m].gates
      BY <1>1, <1>3 DEF BannersSkip
    <2>3. QED
      BY <1>1, <1>3, <2>1, <2>2 DEF SeesButtons
  <1>4. QED
    BY <1>1, <1>2, <1>3 DEF Moved

LEMMA ReadBackPreserved ==
    ASSUME ReadBackBehind, CountsTyped, Moved, Next
    PROVE  ReadBackBehind'
  <1>1. /\ Course' = Course /\ pc # 0 /\ pc \in DOMAIN Course /\ pc \in Nat /\ step = Course[pc]
        /\ DOMAIN Course \subseteq Nat /\ verified = ReadBacks(Course, pc)
    BY Forward, CourseIsSound DEF step, Course, Sound, Moved, ReadBackBehind
  <1>2. SUFFICES ASSUME pc' # 0 PROVE verified' = ReadBacks(Course, pc')
    BY <1>1 DEF ReadBackBehind
  <1>3. pc' \in Nat /\ pc <= pc'
    BY <1>2, Forward
  <1> DEFINE places(n) == {j \in DOMAIN Course : j < n /\ Course[j].do = "readback"}
  <1>4. CASE verified' = verified /\ (pc' = pc \/ step.do # "readback")
    <2>1. \A j \in DOMAIN Course : pc <= j /\ j < pc' => Course[j].do # "readback"
      BY <1>1, <1>2, <1>3, <1>4, Passed
    <2>2. places(pc') = places(pc)
      BY <1>1, <1>3, <2>1
    <2>3. QED
      BY <1>1, <1>4, <2>2 DEF ReadBacks
  <1>5. CASE verified' = verified \cup {step.on} /\ pc' = pc + 1 /\ step.do = "readback"
    <2>1. places(pc') = places(pc) \cup {pc}
      BY <1>1, <1>5
    <2>2. QED
      BY <1>1, <1>5, <2>1 DEF ReadBacks
  <1>6. QED
    BY <1>2, <1>4, <1>5, TargetsLearnt

(* A run that goes on without an act did nothing to the page. *)
LEMMA IdleMoves ==
    ASSUME CountsTyped, Aimed, Moved, Next, pc' # 0, pc' = pc \/ ~Acts(Course, pc)
    PROVE  landed' = landed
  <1>1. pc # 0 /\ pc \in Nat /\ step = Course[pc]
    BY CourseIsSound DEF step, Course, Moved
  <1>2. ASSUME Writing PROVE FALSE
    BY <1>1, <1>2 DEF Writing, Acts
  <1>3. ASSUME NEW what, NEW effect, Clicking(what, effect) PROVE FALSE
    BY <1>1, <1>3 DEF Clicking, Acts
  <1>4. Quiet
    BY <1>2, <1>3, Doings
  <1>5. QED
    BY <1>4 DEF Quiet

LEMMA ButtonsPreserved ==
    ASSUME ButtonsSeen, CountsTyped, Aimed, Moved, Next
    PROVE  ButtonsSeen'
  <1>1. /\ Course' = Course /\ pc # 0 /\ pc \in DOMAIN Course /\ pc \in Nat
        /\ DOMAIN Course \subseteq Nat
    BY Forward, CourseIsSound DEF Course, Sound, Moved
  <1>2. SUFFICES ASSUME pc' # 0, NEW g \in DOMAIN Course, g < pc', SeesButtons(Course, g), Idle(Course, g, pc')
                 PROVE  actionsSeen' = Done'
    BY <1>1 DEF ButtonsSeen, SeesButtons, Idle, Acts
  <1>3. pc' \in Nat /\ pc <= pc'
    BY <1>2, Forward
  <1>4. CASE actionsSeen' = Done /\ landed' = landed
    BY <1>4 DEF Done
  <1>5. CASE actionsSeen' = actionsSeen /\ (pc' = pc \/ ~SeesButtons(Course, pc))
    <2>1. g < pc
      <3>1. SUFFICES ASSUME pc <= g PROVE FALSE
        BY <1>1
      <3>2. g = pc /\ pc' = pc + 1
        BY <1>2, <3>1, Passed
      <3>3. QED
        BY <1>1, <1>2, <1>5, <3>2
    <2>2. Idle(Course, g, pc)
      BY <1>1, <1>2, <1>3 DEF Idle
    <2>3. actionsSeen = Done
      BY <1>1, <1>2, <2>1, <2>2 DEF ButtonsSeen
    <2>4. pc' = pc \/ ~Acts(Course, pc)
      BY <1>1, <1>2, <1>3, <2>1 DEF Idle
    <2>5. landed' = landed
      BY <1>2, <2>4, IdleMoves
    <2>6. QED
      BY <1>5, <2>3, <2>5 DEF Done
  <1>6. QED
    BY <1>2, <1>4, <1>5, ButtonsLearnt

LEMMA WritesPreserved ==
    ASSUME WritesSinceLook, CountsInv, Moved, Next, Unseeing \/ Seeing \/ pc' = 0
    PROVE  WritesSinceLook'
  <1>1. /\ Course' = Course /\ pc # 0 /\ pc \in DOMAIN Course /\ pc \in Nat /\ step = Course[pc]
        /\ DOMAIN Course \subseteq Nat /\ CountsTyped /\ Aimed
    BY Forward, CourseIsSound DEF Course, Sound, Moved, CountsInv, step
  <1>2. SUFFICES ASSUME pc' # 0, NEW k \in DOMAIN Course, LastLook(Course, k, pc'),
                        \A m \in DOMAIN Course : k < m /\ m < pc' => Course[m].do # "click",
                        \A m \in DOMAIN Course : m < k => Course[m].do # "fill"
                 PROVE  seen'.time = Done' - landed'["write"]
    BY <1>1 DEF WritesSinceLook, LastLook, Looks
  <1>3. pc' \in Nat /\ pc <= pc'
    BY <1>1, <1>2, Forward
  <1>4. landed \in [Effects -> Nat] /\ "write" \in Effects /\ Done \in Nat
    BY <1>1 DEF CountsTyped, Done, Effects, Counters, Clicks
  <1>5. CASE Seeing
    <2>1. /\ k = pc /\ seen'.time = Done /\ landed' = landed /\ Done' = Done
      <3>1. step.do \in {"look", "survey"} /\ pc' = pc + 1 /\ landed' = landed /\ seen'.time = Done'
        BY <1>5 DEF Seeing, Done
      <3>2. k = pc
        BY <1>1, <1>2, <3>1 DEF LastLook, Looks
      <3>3. QED
        BY <3>1, <3>2 DEF Done
    <2>2. landed["write"] = 0
      <3>1. landed["write"] <= Cardinality(Fills(Course, pc))
        BY <1>1 DEF CountsInv, WrittenBehind
      <3>2. Fills(Course, pc) = {}
        BY <1>2, <2>1 DEF Fills
      <3>3. QED
        BY <1>4, <3>1, <3>2, FS_EmptySet
    <2>3. QED
      BY <1>4, <2>1, <2>2
  <1>6. CASE Unseeing
    <2>1. k < pc
      <3>1. SUFFICES ASSUME pc <= k PROVE FALSE
        BY <1>1
      <3>2. k < pc' /\ Looks(Course, k)
        BY <1>2 DEF LastLook
      <3>3. k = pc /\ pc' = pc + 1
        BY <1>1, <1>2, <3>1, <3>2, Passed DEF Looks
      <3>4. QED
        BY <1>1, <1>2, <1>6, <3>2, <3>3 DEF Unseeing, Looks
    <2>2. LastLook(Course, k, pc) /\ \A m \in DOMAIN Course : k < m /\ m < pc => Course[m].do # "click"
      BY <1>1, <1>2, <1>3, <2>1 DEF LastLook
    <2>3. seen'.time = Done - landed["write"]
      BY <1>1, <1>2, <1>6, <2>2 DEF WritesSinceLook, Unseeing
    <2>4. CASE landed' = landed
      BY <2>3, <2>4 DEF Done
    <2>5. CASE landed' # landed
      <3>1. ~Quiet
        BY <2>5 DEF Quiet
      <3>2. ASSUME NEW what, NEW effect, Clicking(what, effect) PROVE FALSE
        <4>1. step.do = "click" /\ pc' = pc + 1
          BY <1>2, <3>2 DEF Clicking
        <4>2. QED
          BY <1>1, <1>2, <2>1, <4>1
      <3>3. landed' = [landed EXCEPT !["write"] = @ + 1]
        <4>1. Writing
          BY <1>1, <3>1, <3>2, Doings
        <4>2. QED
          BY <1>2, <4>1 DEF Writing, Add
      <3>4. Done' = Done + 1 /\ landed'["write"] = landed["write"] + 1
        <4>1. landed'["write"] = landed["write"] + 1 /\ \A e \in Effects \ {"write"} : landed'[e] = landed[e]
          BY <1>4, <3>3
        <4>2. \A e \in Effects : landed[e] \in Nat
          BY <1>4
        <4>3. Effects = {"preferences", "unselect", "save", "deny", "apply", "continue", "entry", "write", "another"}
          BY DEF Effects, Counters, Clicks
        <4>4. QED
          BY <4>1, <4>2, <4>3 DEF Done
      <3>5. QED
        BY <1>4, <2>3, <3>4
    <2>6. QED
      BY <2>4, <2>5
  <1>7. QED
    BY <1>2, <1>5, <1>6

(* The steps of the entrance of the safe-fill plan, up to Apply. *)
LEMMA SafeFillSteps ==
    ASSUME CountsTyped, canary = "safe_fill"
    PROVE  /\ {1, 2, 5} \subseteq DOMAIN Course
           /\ Course[1].do = "look" /\ Course[2].do = "banner" /\ Course[2].on = "block"
           /\ Course[5].do = "click" /\ Course[5].on = "apply"
  <1> DEFINE e == SafeFillEntrance("block")
             l == << Look(FormGates) >>
             w == IdentityWrites({"located", "filled"})
             t == << Look({"fill_surface"}), ListButtons, End("filled_verified") >>
  <1>1. Course = ((e \o l) \o w) \o t
    BY DEF Course, Plan, SafeFillPlan
  <1>2. Listed(e) /\ Listed(l) /\ Listed(w) /\ Listed(t)
    BY SafeFillEntrancePiece, LookPiece, IdentityPiece, FillTailPiece DEF Piece
  <1>3. /\ {1, 2, 5} \subseteq DOMAIN e
        /\ e[1].do = "look" /\ e[2].do = "banner" /\ e[2].on = "block"
        /\ e[5].do = "click" /\ e[5].on = "apply"
    BY DEF SafeFillEntrance, Look, Banner, Click, Step
  <1> HIDE DEF e, l, w, t
  <1>4. Listed(e \o l) /\ \A i \in DOMAIN e : (e \o l)[i] = e[i] /\ i \in DOMAIN (e \o l)
    BY <1>2, Concatenation
  <1> DEFINE b == e \o l
  <1>5. Listed(b) /\ \A i \in DOMAIN e : b[i] = e[i] /\ i \in DOMAIN b
    BY <1>4
  <1>6. Course = (b \o w) \o t
    BY <1>1
  <1> HIDE DEF b
  <1> DEFINE c == b \o w
  <1>7. Listed(c) /\ \A i \in DOMAIN b : c[i] = b[i] /\ i \in DOMAIN c
    BY <1>2, <1>5, Concatenation
  <1>8. Course = c \o t
    BY <1>6
  <1> HIDE DEF c
  <1>9. \A i \in DOMAIN c : Course[i] = c[i] /\ i \in DOMAIN Course
    BY <1>2, <1>7, <1>8, Concatenation
  <1>10. QED
    BY <1>3, <1>5, <1>7, <1>9

LEMMA BannersPreserved ==
    ASSUME BannerBlocks, CountsTyped, Aimed, Moved, Next, Unseeing \/ Seeing \/ pc' = 0
    PROVE  BannerBlocks'
  <1>1. SUFFICES ASSUME canary = "safe_fill", pc' # 0
                 PROVE  pc' \notin {3, 4} /\ (pc' \in {2, 5} => seen'.time = Done')
    BY DEF BannerBlocks, Moved
  <1>2. /\ pc # 0 /\ pc \in Nat /\ step = Course[pc] /\ pc \notin {3, 4} /\ pc' \in Nat /\ pc <= pc'
    BY <1>1, CourseIsSound, Forward DEF BannerBlocks, Course, step, Moved
  <1>3. ASSUME pc' = pc
        PROVE  seen' = seen /\ Done' = Done
    BY <1>1, <1>2, <1>3, IdleMoves DEF Unseeing, Seeing, Done
  <1>4. CASE pc = 1
    <2>1. pc' \in {1, 2} /\ step.do = "look"
      BY <1>1, <1>2, <1>4, SafeFillSteps DEF Moved
    <2>2. CASE pc' = 2
      BY <1>1, <1>2, <1>4, <2>1, <2>2 DEF Unseeing, Seeing, Done
    <2>3. QED
      BY <2>1, <2>2
  <1>5. CASE pc = 2
    <2>1. step.do = "banner" /\ step.on = "block"
      BY <1>1, <1>2, <1>5, SafeFillSteps
    <2>2. pc' \in {2, 5}
      BY <1>1, <1>2, <1>5, <2>1, BannersMove DEF Moved
    <2>3. seen' = seen
      BY <1>1, <2>1 DEF Unseeing, Seeing
    <2>4. Done' = Done
      BY <1>1, <1>2, <2>1, IdleMoves DEF Acts, Done
    <2>5. QED
      BY <1>1, <1>5, <2>2, <2>3, <2>4 DEF BannerBlocks
  <1>6. CASE pc >= 5
    <2>1. pc' \notin {2, 3, 4} /\ (pc' = 5 => pc' = pc)
      BY <1>2, <1>6
    <2>2. QED
      BY <1>1, <1>3, <2>1 DEF BannerBlocks
  <1>7. QED
    BY <1>2, <1>4, <1>5, <1>6

LEMMA ChecksPreserved ==
    ASSUME CountsInv, SightsInv, ChecksInv, Next, stage = "off"
    PROVE  ChecksInv'
  <1>1. /\ page \in Pages /\ (form = Null \/ form \in FormsRead) /\ CountsTyped /\ Aimed /\ Moved
    BY Movements DEF CountsInv, SightsInv
  <1>2. Unseeing \/ Seeing \/ pc' = 0
    BY <1>1, Sights
  <1>3. QED
    BY <1>1, <1>2, ReadBackPreserved, ButtonsPreserved, WritesPreserved, BannersPreserved DEF ChecksInv

-----------------------------------------------------------------------------
(* What lands was the step of the run. *)

LEMMA LandingSteps ==
    ASSUME Next, CountsTyped, Aimed
    PROVE  /\ pc \in DOMAIN Course /\ pc # 0 /\ step = Course[pc] /\ canary \in Canaries
           /\ Lands("apply") \/ Lands("another") => Applies(Course, pc)
           /\ Lands("continue") => Continues(Course, pc)
           /\ Lands("write") => Course[pc].do = "fill"
  <1>1. pc # 0 /\ pc \in DOMAIN Course /\ step = Course[pc]
    BY CanariesRest, CourseIsSound DEF step, Course
  <1>2. canary \in Canaries
    <2>1. Plan("smartrecruiters") = << >>
      BY DEF Plan
    <2>2. QED
      BY <1>1, <2>1 DEF CountsTyped, Course
  <1>3. landed \in [Effects -> Nat] /\ {"apply", "another", "continue", "write"} \subseteq Effects
    BY DEF CountsTyped, Effects, Counters, Clicks
  <1> DEFINE Landing == /\ Lands("apply") \/ Lands("another") => Applies(Course, pc)
                        /\ Lands("continue") => Continues(Course, pc)
                        /\ Lands("write") => Course[pc].do = "fill"
  <1>4. ASSUME Quiet PROVE Landing
    BY <1>3, <1>4 DEF Quiet, Lands
  <1>5. ASSUME Writing PROVE Landing
    <2>1. /\ Course[pc].do = "fill"
          /\ landed' = landed \/ landed' = [landed EXCEPT !["write"] = @ + 1]
      BY <1>1, <1>5 DEF Writing, Add
    <2>2. ~Lands("apply") /\ ~Lands("another") /\ ~Lands("continue")
      BY <1>3, <2>1 DEF Lands
    <2>3. QED
      BY <2>1, <2>2
  <1>6. ASSUME NEW what \in Clicks \ {"entry"}, NEW effect \in Effects, Clicking(what, effect) PROVE Landing
    <2>1. /\ Course[pc].do = "click" /\ Course[pc].on = what
          /\ effect = what \/ (effect = "another" /\ what = "apply")
          /\ landed' = landed \/ landed' = [landed EXCEPT ![effect] = @ + 1]
      BY <1>1, <1>6 DEF Clicking, Add
    <2>2. \A e \in Effects : Lands(e) => e = effect
      BY <1>3, <2>1 DEF Lands
    <2>3. /\ Lands("apply") => effect = "apply"
          /\ Lands("another") => effect = "another"
          /\ Lands("continue") => effect = "continue"
          /\ Lands("write") => effect = "write"
      BY <1>3, <2>2
    <2>4. what \notin {"write", "another"}
      BY DEF Clicks
    <2>5. /\ effect \in {"apply", "another"} => what = "apply"
          /\ effect = "continue" => what = "continue"
          /\ effect # "write"
      BY <2>1, <2>4
    <2>6. QED
      BY <2>1, <2>3, <2>5 DEF Applies, Continues
  <1>7. QED
    BY <1>1, <1>2, <1>4, <1>5, <1>6, Doings

(* Where the label is compared another button is clicked only once the page *)
(* moved.                                                                   *)
LEMMA LabelsCompared ==
    ASSUME Next, CountsTyped, Aimed, Lands("another"), "label" \in Course[pc].gates
    PROVE  TargetMoved
  <1>1. landed \in [Effects -> Nat] /\ {"another", "write"} \subseteq Effects /\ step = Course[pc]
    BY DEF CountsTyped, Effects, Counters, Clicks, step, Course
  <1>2. landed' # landed
    BY <1>1 DEF Lands
  <1>3. CASE ClickStep
    <2>1. PICK e \in Met(step.on) :
             landed' = landed \/ (e # "nothing" /\ landed' = Add(landed, e))
      BY <1>3 DEF ClickStep, Landed, Untouched
    <2>2. e = "another"
      BY <1>1, <1>2, <2>1 DEF Add, Lands
    <2>3. step.on = "apply"
      <3>1. step.on \in Clicks \ {"entry"}
        BY <1>3, CourseIsSound DEF ClickStep, At, Sound, ClicksNamed, Course, step
      <3>2. QED
        BY <2>1, <2>2, <3>1 DEF Met, ButtonFound, Clicks
    <2>4. target.what # "another"
      BY <1>1, <1>3, <2>3 DEF ClickStep, Aimed, AimAt
    <2>5. QED
      BY <2>1, <2>2, <2>3, <2>4 DEF Met
  <1>4. CASE Fill
    <2>1. landed' = [landed EXCEPT !["write"] = @ + 1]
      BY <1>2, <1>4 DEF Fill, Landed, Untouched, Add
    <2>2. QED
      BY <1>1, <2>1 DEF Lands
  <1>5. CASE ~ClickStep /\ ~Fill
    BY <1>2, <1>5 DEF Next, Drift, Exception, ReadForm, LookStep, GlanceStep, SurveyStep, BannerStep,
       Unresolved, Resolved, Aim, NotLocated, AlreadyHeld, ReadBack, Finish, Untouched
  <1>6. QED
    BY <1>3, <1>4, <1>5

LEMMA SurfacesPassed ==
    ASSUME NEW s
    PROVE  /\ LookPasses("nav_surface", s) => NavigationSurface(s) = ReviewedNavigation
           /\ LookPasses("fill_surface", s) => SafeFillSurface(s) = ReviewedForm
           /\ LookPasses("off_boundary", s) => ~s.auth
  <1>1. LookPasses("nav_surface", s) => NavigationSurface(s) = ReviewedNavigation
    BY DEF LookPasses
  <1>2. LookPasses("fill_surface", s) => SafeFillSurface(s) = ReviewedForm
    BY DEF LookPasses
  <1>3. LookPasses("off_boundary", s) => ~s.auth
    BY DEF LookPasses
  <1>4. QED
    BY <1>1, <1>2, <1>3

(* What the last look before a step checked, holds of what the run saw. *)
LEMMA LookedBefore ==
    ASSUME SightsInv, pc # 0, NEW k \in DOMAIN Course, LastLook(Course, k, pc), Course[k].do = "look"
    PROVE  /\ \A g \in Course[k].gates : LookPasses(g, seen)
           /\ Idle(Course, k, pc) => seen.time = Done
  BY DEF SightsInv, Sighted

LEMMA ApplyStep ==
    ASSUME CountsInv, SightsInv, ChecksInv, Next, Lands("apply") \/ Lands("another")
    PROVE  /\ NavigationSurface(seen) = ReviewedNavigation
           /\ canary # "safe_fill_deny" => seen.time = Done
           /\ canary \notin {"diagnostic", "profile_v2"} => ~seen.auth
           /\ Lands("another") /\ canary \notin {"diagnostic", "verified_session"} => TargetMoved
  <1>1. CountsTyped /\ Aimed
    BY DEF CountsInv
  <1>2. pc \in DOMAIN Course /\ pc # 0 /\ canary \in Canaries /\ Applies(Course, pc)
    BY <1>1, LandingSteps
  <1>3. EntryChecked(Course, canary \notin {"diagnostic", "verified_session"},
                     canary \notin {"diagnostic", "profile_v2"}, canary \notin {"safe_fill", "safe_fill_deny"})
    BY <1>2, PlansCheck DEF Course
  <1>4. canary \notin {"diagnostic", "verified_session"} => "label" \in Course[pc].gates
    BY <1>2, <1>3 DEF EntryChecked
  <1>5. PICK k \in DOMAIN Course :
           /\ LastLook(Course, k, pc) /\ Course[k].do = "look" /\ "nav_surface" \in Course[k].gates
           /\ canary \notin {"diagnostic", "profile_v2"} => "off_boundary" \in Course[k].gates
           /\ canary \notin {"safe_fill", "safe_fill_deny"} => Idle(Course, k, pc)
    BY <1>2, <1>3 DEF EntryChecked
  <1>6. /\ \A g \in Course[k].gates : LookPasses(g, seen)
        /\ Idle(Course, k, pc) => seen.time = Done
    BY <1>2, <1>5, LookedBefore
  <1>7. NavigationSurface(seen) = ReviewedNavigation
    BY <1>5, <1>6, SurfacesPassed
  <1>8. canary \notin {"diagnostic", "profile_v2"} => ~seen.auth
    BY <1>5, <1>6, SurfacesPassed
  <1>9. canary = "safe_fill" => seen.time = Done
    <2>1. HAVE canary = "safe_fill"
    <2>2. pc = 5
      BY <1>1, <1>2, <2>1, SafeFillSteps, CourseIsSound DEF Sound, Acts, Applies
    <2>3. QED
      BY <2>1, <2>2 DEF ChecksInv, BannerBlocks
  <1>10. Lands("another") /\ canary \notin {"diagnostic", "verified_session"} => TargetMoved
    BY <1>1, <1>4, LabelsCompared
  <1>11. QED
    BY <1>5, <1>6, <1>7, <1>8, <1>9, <1>10

LEMMA WriteStep ==
    ASSUME CountsInv, SightsInv, ChecksInv, Next, Lands("write")
    PROVE  /\ canary \notin {"navigation", "cookie_preferences", "phone_contract"}
           /\ successes["apply"] = 1 /\ landed["continue"] = 0
           /\ SafeFillSurface(seen) = ReviewedForm
           /\ seen.time + landed["write"] = Done
  <1>1. CountsTyped /\ Aimed
    BY DEF CountsInv
  <1>2. pc \in DOMAIN Course /\ pc # 0 /\ canary \in Canaries /\ Course[pc].do = "fill"
    BY <1>1, LandingSteps
  <1>3. canary \notin {"navigation", "cookie_preferences", "phone_contract"}
    BY <1>2, PlansCheck DEF Harmless, Course
  <1>4. /\ \E k \in DOMAIN Course :
              /\ LastLook(Course, k, pc) /\ Course[k].do = "look" /\ "fill_surface" \in Course[k].gates
              /\ \A m \in DOMAIN Course : k < m /\ m < pc => Course[m].do # "click"
              /\ \A m \in DOMAIN Course : m < k => Course[m].do # "fill"
        /\ \E a \in DOMAIN Course : a < pc /\ Applies(Course, a)
        /\ \A i \in DOMAIN Course : i < pc => ~Continues(Course, i)
    BY <1>2, PlansCheck DEF WritesChecked, Course
  <1>5. landed \in [Effects -> Nat] /\ {"write", "continue"} \subseteq Effects /\ Done \in Nat
    BY <1>1 DEF CountsTyped, Done, Effects, Counters, Clicks
  <1>6. SafeFillSurface(seen) = ReviewedForm
    BY <1>2, <1>4, LookedBefore, SurfacesPassed
  <1>7. seen.time = Done - landed["write"]
    BY <1>2, <1>4 DEF ChecksInv, WritesSinceLook
  <1>8. successes["apply"] = 1
    BY <1>2, <1>4 DEF CountsInv, BehindClicked, Applies
  <1>9. landed["continue"] = 0
    <2>1. attempts["continue"] = 0
      BY <1>2, <1>4 DEF CountsInv, ClickedBehind, Continues, Clicks
    <2>2. landed["continue"] <= attempts["continue"]
      BY DEF CountsInv, CountedEffects, Landings, Counters, Clicks
    <2>3. QED
      BY <1>5, <2>1, <2>2
  <1>10. QED
    BY <1>3, <1>5, <1>6, <1>7, <1>8, <1>9

LEMMA ContinueStep ==
    ASSUME CountsInv, SightsInv, ChecksInv, Next, Lands("continue")
    PROVE  /\ verified = Targets(canary) /\ verified # {}
           /\ actionsSeen = Done
           /\ SafeFillSurface(seen) = ReviewedForm
           /\ canary # "profile_v2" => seen.time = Done
  <1>1. CountsTyped /\ Aimed
    BY DEF CountsInv
  <1>2. pc \in DOMAIN Course /\ pc # 0 /\ canary \in Canaries /\ Continues(Course, pc)
    BY <1>1, LandingSteps
  <1>3. ContinueChecked(Course, canary # "profile_v2")
    BY <1>2, PlansCheck DEF Course
  <1>4. /\ \E k \in DOMAIN Course :
              /\ LastLook(Course, k, pc) /\ Course[k].do = "look" /\ "fill_surface" \in Course[k].gates
              /\ canary # "profile_v2" => Idle(Course, k, pc)
        /\ \E g \in DOMAIN Course : g < pc /\ Course[g].do = "glance" /\ "actions" \in Course[g].gates
                                    /\ Idle(Course, g, pc)
        /\ \E i \in DOMAIN Course : Course[i].do = "fill"
        /\ \A i \in DOMAIN Course : Course[i].do = "fill" =>
              \E j \in DOMAIN Course : j < pc /\ Course[j].do = "readback" /\ Course[j].on = Course[i].on
        /\ \A j \in DOMAIN Course : Course[j].do = "readback" =>
              \E i \in DOMAIN Course : Course[i].do = "fill" /\ Course[i].on = Course[j].on
    BY <1>2, <1>3 DEF ContinueChecked
  <1>5. SafeFillSurface(seen) = ReviewedForm
    BY <1>2, <1>4, LookedBefore, SurfacesPassed
  <1>6. canary # "profile_v2" => seen.time = Done
    BY <1>2, <1>4, LookedBefore
  <1>7. actionsSeen = Done
    BY <1>2, <1>4 DEF ChecksInv, ButtonsSeen, SeesButtons
  <1>8. verified = ReadBacks(Course, pc)
    BY <1>2 DEF ChecksInv, ReadBackBehind
  <1>9. ReadBacks(Course, pc) = Targets(canary)
    <2>1. Targets(canary) = {Course[i].on : i \in {j \in DOMAIN Course : Course[j].do = "fill"}}
      BY DEF Targets, Course
    <2>2. ASSUME NEW x \in ReadBacks(Course, pc) PROVE x \in Targets(canary)
      BY <1>4, <2>1, <2>2 DEF ReadBacks
    <2>3. ASSUME NEW x \in Targets(canary) PROVE x \in ReadBacks(Course, pc)
      BY <1>4, <2>1, <2>3 DEF ReadBacks
    <2>4. QED
      BY <2>2, <2>3
  <1>10. Targets(canary) # {}
    <2>1. PICK i \in DOMAIN Course : Course[i].do = "fill"
      BY <1>4
    <2>2. Course[i].on \in Targets(canary)
      BY <2>1 DEF Targets, Course
    <2>3. QED
      BY <2>2
  <1>11. QED
    BY <1>5, <1>6, <1>7, <1>8, <1>9, <1>10

(* Only a canary lands clicks and writes; an inspection lands its entry.    *)
LEMMA OnlyCanariesLand ==
    ASSUME CountsInv, [LiveNext]_liveVars,
           Lands("apply") \/ Lands("another") \/ Lands("write") \/ Lands("continue")
    PROVE  Next
  <1>1. landed \in [Effects -> Nat] /\ {"apply", "another", "continue", "write", "entry"} \subseteq Effects
    BY DEF CountsInv, CountsTyped, Effects, Counters, Clicks
  <1>2. CASE UNCHANGED landed
    BY <1>1, <1>2 DEF Lands
  <1>3. CASE landed' = Add(landed, "entry")
    BY <1>1, <1>3 DEF Lands, Add
  <1>4. CASE Next
    BY <1>4
  <1>5. LiveNext => Next \/ UNCHANGED landed \/ landed' = Add(landed, "entry")
    BY DEF LiveNext, PageAlters, PageRequests, InspectionFails, PreForm, PreBody, SelectEntry,
       InstallFence, EntryGone, Follow, TakeEffect, Settle, Unfence, ReadPosting, Judge, Elsewhere, Touchless
  <1>6. UNCHANGED liveVars => UNCHANGED landed
    BY DEF liveVars, vars
  <1>7. QED
    BY <1>2, <1>3, <1>4, <1>5, <1>6

LEMMA ChecksInit == LiveInit => ChecksInv
  <1> SUFFICES ASSUME LiveInit PROVE ChecksInv
    OBVIOUS
  <1>1. pc \in {0, 1} /\ verified = {} /\ CountsTyped
    BY CountsInitInv DEF LiveInit, Init, Fresh, CountsInv
  <1>2. \A i \in DOMAIN Course : ~(i < 1)
    BY <1>1, CourseIsSound DEF Sound
  <1>3. ReadBackBehind
    <2>1. {j \in DOMAIN Course : j < 1 /\ Course[j].do = "readback"} = {}
      BY <1>2
    <2>2. QED
      BY <1>1, <2>1 DEF ReadBackBehind, ReadBacks
  <1>4. ButtonsSeen /\ WritesSinceLook
    BY <1>1, <1>2 DEF ButtonsSeen, WritesSinceLook, LastLook
  <1>5. BannerBlocks
    BY <1>1 DEF BannerBlocks
  <1>6. QED
    BY <1>3, <1>4, <1>5 DEF ChecksInv

LEMMA ChecksStep ==
    ASSUME LInv, CountsInv, SightsInv, ChecksInv, [LiveNext]_liveVars
    PROVE  ChecksInv'
  <1>1. CASE Next /\ UNCHANGED inspector
    <2>1. stage = "off"
      BY <1>1, CanariesRest DEF LInv, LiveTyped
    <2>2. QED
      BY <1>1, <2>1, ChecksPreserved
  <1>2. CASE UNCHANGED liveVars
    BY <1>2 DEF liveVars, vars, ChecksInv, ReadBackBehind, ButtonsSeen, WritesSinceLook, BannerBlocks,
       Course, Done
  <1>3. CASE PageAlters \/ PageRequests \/ InspectionFails \/ PreForm \/ PreBody \/ SelectEntry
             \/ InstallFence \/ EntryGone \/ Follow \/ Settle \/ Unfence \/ ReadPosting \/ Judge
    <2>1. stage # "off" /\ UNCHANGED <<canary, pc>>
      BY <1>3 DEF PageAlters, PageRequests, InspectionFails, PreForm, PreBody, SelectEntry,
         InstallFence, EntryGone, Follow, Settle, Unfence, ReadPosting, Judge, Inspecting, Elsewhere, Goal
    <2>2. pc = 0 /\ pc' = 0
      BY <2>1 DEF LInv, LiveTyped
    <2>3. QED
      BY <2>2 DEF ChecksInv, ReadBackBehind, ButtonsSeen, WritesSinceLook, BannerBlocks
  <1>4. QED
    BY <1>1, <1>2, <1>3 DEF LiveNext

THEOREM ChecksInvariance == LiveSpec => [](LInv /\ CountsInv /\ SightsInv /\ ChecksInv)
  <1>1. LInv /\ CountsInv /\ SightsInv /\ ChecksInv /\ [LiveNext]_liveVars => ChecksInv'
    BY ChecksStep
  <1>2. LiveInit => ChecksInv
    BY ChecksInit
  <1>3. QED
    BY <1>1, <1>2, RunsInvariance, PTL DEF LiveSpec

(* Apply is clicked only on the entry surface the last look compared, after *)
(* everything the run itself did, and another button in its place only if   *)
(* the page moved after the label was read (click of the entry in           *)
(* run_adp_*_canary; the exceptions are the checks that plan lacks).        *)
THEOREM ApplyFollowsFreshLook == LiveSpec => ApplyOnFreshLook
  <1> DEFINE Promise ==
        Lands("apply") \/ Lands("another") =>
            /\ NavigationSurface(seen) = ReviewedNavigation
            /\ canary # "safe_fill_deny" => seen.time = Done
            /\ canary \notin {"diagnostic", "profile_v2"} => ~seen.auth
            /\ Lands("another") /\ canary \notin {"diagnostic", "verified_session"} => TargetMoved
  <1>1. LInv /\ CountsInv /\ SightsInv /\ ChecksInv /\ [LiveNext]_liveVars => [Promise]_vars
    BY OnlyCanariesLand, ApplyStep
  <1>2. QED
    BY <1>1, ChecksInvariance, PTL DEF LiveSpec, ApplyOnFreshLook

(* Candidate values are written only between Apply and Continue, and only   *)
(* into the form a look since Apply found to be the reviewed one.           *)
THEOREM WritesFollowReviewedForm == LiveSpec => ProfileWrittenOnReviewedForm
  <1> DEFINE Promise ==
        Lands("write") =>
            /\ canary \notin {"navigation", "cookie_preferences", "phone_contract"}
            /\ successes["apply"] = 1 /\ landed["continue"] = 0
            /\ SafeFillSurface(seen) = ReviewedForm
            /\ seen.time + landed["write"] = Done
  <1>1. LInv /\ CountsInv /\ SightsInv /\ ChecksInv /\ [LiveNext]_liveVars => [Promise]_vars
    BY OnlyCanariesLand, WriteStep
  <1>2. QED
    BY <1>1, ChecksInvariance, PTL DEF LiveSpec, ProfileWrittenOnReviewedForm

(* Continue is clicked only when every target was read back as wanted, and  *)
(* nothing was done since the buttons, and but for profile v2 the form,     *)
(* were seen to be the reviewed ones.                                       *)
THEOREM ContinueFollowsReadBack == LiveSpec => ContinueOnVerifiedForm
  <1> DEFINE Promise ==
        Lands("continue") =>
            /\ verified = Targets(canary) /\ verified # {}
            /\ actionsSeen = Done
            /\ SafeFillSurface(seen) = ReviewedForm
            /\ canary # "profile_v2" => seen.time = Done
  <1>1. LInv /\ CountsInv /\ SightsInv /\ ChecksInv /\ [LiveNext]_liveVars => [Promise]_vars
    BY OnlyCanariesLand, ContinueStep
  <1>2. QED
    BY <1>1, ChecksInvariance, PTL DEF LiveSpec, ContinueOnVerifiedForm
=============================================================================
