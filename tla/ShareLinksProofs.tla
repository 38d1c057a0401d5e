-------------------------- MODULE ShareLinksProofs --------------------------
(***************************************************************************)
(* What ShareLinks promises for any links, files, folders, passwords,      *)
(* workers, plans and lifetimes.                                           *)
(***************************************************************************)
EXTENDS ShareLinks, FiniteSetTheorems, TLAPS

-----------------------------------------------------------------------------
(* Types *)

Rows == link \in [Links -> Row] /\ root \in [Files -> Roots \cup {None}] /\ config \in Configs
Grants == token \in [Links -> 0 .. TokenLife] /\ url \in [Links -> [Files -> 0 .. UrlLife]]
Jobs == job \in [Web \cup Public -> Job]
Counts ==
    /\ closed \in [Links -> 0 .. UrlLife]
    /\ away \in [Links -> [Files -> 0 .. UrlLife]]
    /\ locked \in [Links -> 0 .. TokenLife + UrlLife]

LEMMA TypeParts == TypeOK <=> Rows /\ Grants /\ Jobs /\ Counts
  BY DEF TypeOK, Rows, Grants, Jobs, Counts

LEMMA EmptyRows == NoLink \in Row /\ IdleJob \in Job
  BY DEF NoLink, Row, IdleJob, Job, Left, PCs

LEMMA LessIsLess ==
    /\ \A n \in Nat : Less(n) \in Nat /\ Less(n) <= n /\ (n > 0 => Less(n) = n - 1)
    /\ \A n \in Left : Less(n) \in Left
<1>1. ASSUME NEW n \in Nat
      PROVE  Less(n) \in Nat /\ Less(n) <= n /\ (n > 0 => Less(n) = n - 1)
  <2>1. n # None
    BY NoneAssumption
  <2>2. QED  BY <2>1 DEF Less
<1>2. Less(None) = None
  BY DEF Less
<1>3. QED  BY <1>1, <1>2 DEF Left

LEMMA UpToBounds ==
    ASSUME NEW most \in Nat, NEW n \in Nat
    PROVE  UpTo(n, most) \in 0 .. most /\ UpTo(n, most) <= n /\ (n <= most => UpTo(n, most) = n)
  BY DEF UpTo

LEMMA WatchCounts ==
    ASSUME Counts, NEW ticks \in {0, 1}, Watch(ticks)
    PROVE  Counts'
<1>1. UrlLife \in Nat /\ TokenLife \in Nat /\ TokenLife + UrlLife \in Nat
  BY TimeAssumption
<1>2. ASSUME NEW l \in Links
      PROVE  /\ closed'[l] \in 0 .. UrlLife /\ locked'[l] \in 0 .. TokenLife + UrlLife
             /\ \A x \in Files : away'[l][x] \in 0 .. UrlLife
  <2>1. closed'[l] = IF Open(l)' THEN 0 ELSE UpTo(closed[l] + ticks, UrlLife)
    BY Zenon DEF Watch
  <2>2. locked'[l] = IF Unlocked(l)' THEN 0 ELSE UpTo(locked[l] + ticks, TokenLife + UrlLife)
    BY Zenon DEF Watch
  <2>3. ASSUME NEW x \in Files
        PROVE  away'[l][x] \in 0 .. UrlLife
    <3>1. away'[l][x] = IF InLink(l, x)' THEN 0 ELSE UpTo(away[l][x] + ticks, UrlLife)
      BY Zenon DEF Watch
    <3>2. away[l][x] + ticks \in Nat
      BY <1>1 DEF Counts
    <3>3. QED  BY <1>1, <3>1, <3>2, UpToBounds
  <2>4. closed[l] + ticks \in Nat /\ locked[l] + ticks \in Nat
    BY <1>1 DEF Counts
  <2>5. closed'[l] \in 0 .. UrlLife
    BY <1>1, <2>1, <2>4, UpToBounds
  <2>6. locked'[l] \in 0 .. TokenLife + UrlLife
    <3> DEFINE most == TokenLife + UrlLife
               n == locked[l] + ticks
    <3>1. most \in Nat /\ n \in Nat
      BY <1>1, <2>4
    <3>2. locked'[l] = IF Unlocked(l)' THEN 0 ELSE UpTo(n, most)
      BY <2>2
    <3> HIDE DEF most, n
    <3>3. locked'[l] \in 0 .. most
      BY <3>1, <3>2, UpToBounds
    <3>4. QED  BY <3>3 DEF most
  <2>7. QED  BY <2>3, <2>5, <2>6
<1>3. /\ closed' = [l \in Links |-> closed'[l]] /\ locked' = [l \in Links |-> locked'[l]]
      /\ away' = [l \in Links |-> [x \in Files |-> away'[l][x]]]
  BY DEF Watch
<1>4. QED  BY <1>2, <1>3 DEF Counts

\* The minutes of a plan, and what normalization makes of a request's expiry.
LEMMA NormalizedIsDate ==
    ASSUME Rows, NEW chosen \in Left
    PROVE  Normalized(chosen) \in Nat
<1>1. config.minutes \in Nat \cup {None}
  BY ConfigAssumption DEF Rows, Config
<1>2. QED  BY <1>1, TimeAssumption DEF Normalized, Left

LEMMA InitTypes == Init => TypeOK
<1> SUFFICES ASSUME Init PROVE TypeOK
  OBVIOUS
<1>1. Rows /\ Jobs
  BY EmptyRows DEF Init, Rows, Jobs
<1>2. Grants /\ Counts
  BY TimeAssumption DEF Init, Grants, Counts
<1>3. QED  BY <1>1, <1>2, TypeParts

LEMMA OwnerTypes ==
    ASSUME TypeOK, Owner
    PROVE  Rows' /\ Grants' /\ Jobs'
<1>0. Rows /\ Grants /\ Jobs
  BY TypeParts
<1>1. ASSUME NEW w \in Web, NEW l \in Links, CreateLink(w, l)
      PROVE  Rows' /\ Grants' /\ Jobs'
  <2>1. PICK files \in SUBSET Files, folders \in SUBSET Roots,
             chosen \in Choices \cup {None}, password \in Passwords \cup {None} :
          job' = [job EXCEPT ![w] =
              [IdleJob EXCEPT !.pc = "insert", !.link = l, !.chosen = chosen,
                 !.row = [present |-> TRUE, files |-> files, folders |-> folders, left |-> None,
                          revoked |-> FALSE, password |-> password]]]
    BY <1>1, Zenon DEF CreateLink
  <2> DEFINE row == [present |-> TRUE, files |-> files, folders |-> folders, left |-> None,
                     revoked |-> FALSE, password |-> password]
             j == [IdleJob EXCEPT !.pc = "insert", !.link = l, !.chosen = chosen, !.row = row]
  <2>2. row \in Row
    BY DEF Row, Left
  <2>3. chosen \in Left
    BY TimeAssumption DEF Left
  <2> HIDE DEF row
  <2>4. j \in Job
    BY <2>2, <2>3, EmptyRows DEF Job, PCs
  <2>5. job' = [job EXCEPT ![w] = j]
    BY <2>1 DEF row
  <2> HIDE DEF j
  <2>6. Jobs'
    BY <1>0, <2>4, <2>5 DEF Jobs
  <2>7. QED  BY <1>0, <1>1, <2>6 DEF CreateLink, Rows, Grants
<1>2. ASSUME NEW w \in Web, NEW l \in Links, EditLink(w, l)
      PROVE  Rows' /\ Grants' /\ Jobs'
  <2>1. PICK files \in SUBSET Files, folders \in SUBSET Roots,
             named \in SUBSET {"files", "folders"},
             chosen \in Choices \cup {None}, password \in Passwords \cup {None} :
          job' = [job EXCEPT ![w] =
              [pc |-> "save", link |-> l, chosen |-> chosen, named |-> named,
               row |-> [link[l] EXCEPT !.files = files, !.folders = folders,
                          !.password = IF password = None THEN @ ELSE password]]]
    BY <1>2, Zenon DEF EditLink
  <2> DEFINE row == [link[l] EXCEPT !.files = files, !.folders = folders,
                       !.password = IF password = None THEN @ ELSE password]
             j == [pc |-> "save", link |-> l, chosen |-> chosen, named |-> named, row |-> row]
  <2>2. row \in Row
    BY <1>0 DEF Rows, Row
  <2>3. chosen \in Left
    BY TimeAssumption DEF Left
  <2> HIDE DEF row
  <2>4. j \in Job
    BY <2>2, <2>3 DEF Job, PCs
  <2>5. job' = [job EXCEPT ![w] = j]
    BY <2>1 DEF row
  <2> HIDE DEF j
  <2>6. Jobs'
    BY <1>0, <2>4, <2>5 DEF Jobs
  <2>7. QED  BY <1>0, <1>2, <2>6 DEF EditLink, Rows, Grants
<1>3. ASSUME NEW w \in Web, InsertLink(w) \/ SaveEdit(w)
      PROVE  Rows' /\ Grants' /\ Jobs'
  <2>1. job[w] \in Job
    BY <1>0 DEF Jobs
  <2>2. Jobs'
    BY <1>0, <1>3, EmptyRows DEF InsertLink, SaveEdit, Return, Jobs
  <2>3. link' \in [Links -> Row]
    <3>1. CASE InsertLink(w)
      <4> DEFINE row == [job[w].row EXCEPT !.left = Normalized(job[w].chosen)]
      <4>1. row \in Row
        BY <2>1, <1>0, NormalizedIsDate DEF Job, Row, Left
      <4>2. link' = [link EXCEPT ![job[w].link] = row]
        BY <3>1 DEF InsertLink
      <4> HIDE DEF row
      <4>3. QED  BY <4>1, <4>2, <1>0 DEF Rows
    <3>2. CASE SaveEdit(w)
      <4> DEFINE j == job[w]
                 l == j.link
                 row == [j.row EXCEPT !.left = IF config.choose THEN j.chosen ELSE @,
                            !.files = IF "files" \in j.named THEN @ ELSE link[l].files,
                            !.folders = IF "folders" \in j.named THEN @ ELSE link[l].folders]
      <4>1. CASE l \in Links
        <5>1. link[l] \in Row
          BY <4>1, <1>0 DEF Rows
        <5>2. row \in Row
          BY <5>1, <2>1 DEF Job, Row, Left
        <5>3. link' = [link EXCEPT ![l] = row]
          BY <3>2 DEF SaveEdit
        <5> HIDE DEF row, l
        <5>4. QED  BY <5>2, <5>3, <1>0 DEF Rows
      <4>2. CASE l \notin Links
        <5>1. link' = [link EXCEPT ![l] = row]
          BY <3>2 DEF SaveEdit
        <5> HIDE DEF row, l
        <5>2. QED  BY <4>2, <5>1, <1>0 DEF Rows
      <4>3. QED  BY <4>1, <4>2
    <3>3. QED  BY <1>3, <3>1, <3>2
  <2>4. QED  BY <1>0, <1>3, <2>2, <2>3 DEF InsertLink, SaveEdit, Rows, Grants
<1>4. ASSUME NEW l \in Links, RevokeLink(l) \/ DeleteLink(l)
      PROVE  Rows' /\ Grants' /\ Jobs'
  <2>1. link' \in [Links -> Row]
    <3> DEFINE row == [link[l] EXCEPT !.revoked = TRUE]
    <3>1. row \in Row
      BY <1>0 DEF Rows, Row
    <3>2. link' = [link EXCEPT ![l] = row] \/ link' = [link EXCEPT ![l] = NoLink]
      BY <1>4 DEF RevokeLink, DeleteLink
    <3> HIDE DEF row
    <3>3. QED  BY <1>0, <3>1, <3>2, EmptyRows DEF Rows
  <2>2. QED  BY <1>0, <1>4, <2>1 DEF RevokeLink, DeleteLink, Rows, Grants, Jobs
<1>5. ASSUME NEW x \in Files, Reorganise(x)
      PROVE  Rows' /\ Grants' /\ Jobs'
  BY <1>0, <1>5 DEF Reorganise, Rows, Grants, Jobs
<1>6. ASSUME ChangePlan
      PROVE  Rows' /\ Grants' /\ Jobs'
  BY <1>0, <1>6 DEF ChangePlan, Rows, Grants, Jobs
<1>7. QED  BY <1>1, <1>2, <1>3, <1>4, <1>5, <1>6 DEF Owner

LEMMA VisitorTypes ==
    ASSUME TypeOK, Visitors
    PROVE  Rows' /\ Grants' /\ Jobs'
<1>0. Rows /\ Grants /\ Jobs
  BY TypeParts
<1>1. ASSUME NEW l \in Links, Authenticate(l)
      PROVE  Rows' /\ Grants' /\ Jobs'
  <2>1. token' \in [Links -> 0 .. TokenLife]
    BY <1>0, <1>1, TimeAssumption DEF Authenticate, AccessMaxAge, Grants
  <2>2. QED  BY <1>0, <1>1, <2>1 DEF Authenticate, Rows, Grants, Jobs
<1>2. ASSUME NEW v \in Public, NEW l \in Links, OpenLink(v, l)
      PROVE  Rows' /\ Grants' /\ Jobs'
  <2> DEFINE j == [job[v] EXCEPT !.pc = "open", !.link = l]
  <2>1. j \in Job
    BY <1>0 DEF Jobs, Job, PCs
  <2>2. job' = [job EXCEPT ![v] = j]
    BY <1>2 DEF OpenLink
  <2> HIDE DEF j
  <2>3. Jobs'
    BY <1>0, <2>1, <2>2 DEF Jobs
  <2>4. QED  BY <1>0, <1>2, <2>3 DEF OpenLink, Rows, Grants
<1>3. ASSUME NEW v \in Public, NEW x \in Files, Download(v, x)
      PROVE  Rows' /\ Grants' /\ Jobs'
  <2>1. Jobs'
    BY <1>0, <1>3, EmptyRows DEF Download, Return, Jobs
  <2>2. UrlLife \in 0 .. UrlLife
    BY TimeAssumption
  <2>3. PICK l : url' = url \/ url' = [url EXCEPT ![l][x] = UrlLife]
    BY <1>3 DEF Download
  <2>4. url' \in [Links -> [Files -> 0 .. UrlLife]]
    BY <1>0, <2>2, <2>3 DEF Grants
  <2>5. QED  BY <1>0, <1>3, <2>1, <2>4 DEF Download, Rows, Grants
<1>4. QED  BY <1>1, <1>2, <1>3 DEF Visitors

LEMMA TickTypes ==
    ASSUME TypeOK, Tick
    PROVE  Rows' /\ Grants' /\ Jobs'
<1>0. Rows /\ Grants /\ Jobs
  BY TypeParts
<1>1. Rows'
  <2>1. \A l \in Links : [link[l] EXCEPT !.left = Less(@)] \in Row
    BY <1>0, LessIsLess DEF Rows, Row
  <2> DEFINE aged == [l \in Links |-> [link[l] EXCEPT !.left = Less(@)]]
  <2>2. aged \in [Links -> Row]
    BY <2>1
  <2>3. link' = aged /\ UNCHANGED <<root, config>>
    BY Zenon DEF Tick
  <2> HIDE DEF aged
  <2>4. QED  BY <1>0, <2>2, <2>3 DEF Rows
<1>2. Grants'
  <2>1. \A n \in 0 .. TokenLife : Less(n) \in 0 .. TokenLife
    BY LessIsLess, TimeAssumption
  <2>2. \A n \in 0 .. UrlLife : Less(n) \in 0 .. UrlLife
    BY LessIsLess, TimeAssumption
  <2>3. token' = [l \in Links |-> Less(token[l])]
    BY Zenon DEF Tick, TokenAges
  <2>4. url' = [l \in Links |-> [x \in Files |-> Less(url[l][x])]]
    BY Zenon DEF Tick
  <2>5. \A l \in Links : Less(token[l]) \in 0 .. TokenLife
    BY <1>0, <2>1 DEF Grants
  <2>6. \A l \in Links, x \in Files : Less(url[l][x]) \in 0 .. UrlLife
    BY <1>0, <2>2 DEF Grants
  <2>7. token' \in [Links -> 0 .. TokenLife]
    BY <2>3, <2>5, Zenon
  <2>8. url' \in [Links -> [Files -> 0 .. UrlLife]]
    BY <2>4, <2>6, Zenon
  <2>9. QED  BY <2>7, <2>8 DEF Grants
<1>3. Jobs'
  <2>1. ASSUME NEW j \in Job
        PROVE  [j EXCEPT !.row.left = Less(@), !.chosen = Less(@)] \in Job
    <3>1. [j.row EXCEPT !.left = Less(@)] \in Row
      BY LessIsLess DEF Job, Row
    <3>2. QED  BY <3>1, LessIsLess DEF Job
  <2> DEFINE Aged(j) == [j EXCEPT !.row.left = Less(@), !.chosen = Less(@)]
  <2>2. job' = [w \in Web \cup Public |-> Aged(job[w])]
    BY Zenon DEF Tick
  <2>3. \A w \in Web \cup Public : Aged(job[w]) \in Job
    BY <1>0, <2>1 DEF Jobs
  <2> HIDE DEF Aged
  <2>4. QED  BY <2>2, <2>3, Zenon DEF Jobs
<1>4. QED  BY <1>1, <1>2, <1>3

LEMMA StepTypes == TypeOK /\ [Next]_vars => TypeOK'
<1> SUFFICES ASSUME TypeOK, [Next]_vars PROVE TypeOK'
  OBVIOUS
<1>1. CASE (Owner \/ Visitors) /\ Watch(0)
  BY <1>1, OwnerTypes, VisitorTypes, WatchCounts, TypeParts DEF TypeOK, Rows, Grants, Jobs, Counts
<1>2. CASE Tick /\ Watch(1)
  BY <1>2, TickTypes, WatchCounts, TypeParts DEF TypeOK, Rows, Grants, Jobs, Counts
<1>3. CASE UNCHANGED vars
  BY <1>3 DEF vars, TypeOK
<1>4. QED  BY <1>1, <1>2, <1>3 DEF Next

\* Every reachable state is well typed.
THEOREM TypeCorrect == Spec => []TypeOK
  BY InitTypes, StepTypes, PTL DEF Spec

-----------------------------------------------------------------------------
(* What a link gives once it is closed, emptied or locked *)

GrantsRunOut ==
    \A l \in Links :
        /\ token[l] > 0 => token[l] + locked[l] <= TokenLife
        /\ \A x \in Files : url[l][x] > 0 =>
             /\ url[l][x] + closed[l] <= UrlLife
             /\ url[l][x] + away[l][x] <= UrlLife
             /\ url[l][x] + locked[l] <= TokenLife + UrlLife

CountsStartAnew ==
    \A l \in Links :
        /\ Open(l) => closed[l] = 0
        /\ Unlocked(l) => locked[l] = 0
        /\ \A x \in Files : InLink(l, x) => away[l][x] = 0

VisitorsInTime ==
    \A v \in Public : At(v, "open") =>
        /\ job[v].link \in Links
        /\ closed[job[v].link] = 0
        /\ locked[job[v].link] <= TokenLife

VInv == TypeOK /\ GrantsRunOut /\ CountsStartAnew /\ VisitorsInTime

LEMMA CountsGrow ==
    ASSUME Counts, NEW ticks \in {0, 1}, Watch(ticks), NEW l \in Links
    PROVE  /\ closed'[l] <= closed[l] + ticks /\ (Open(l)' => closed'[l] = 0)
           /\ locked'[l] <= locked[l] + ticks /\ (Unlocked(l)' => locked'[l] = 0)
           /\ \A x \in Files :
                away'[l][x] <= away[l][x] + ticks /\ (InLink(l, x)' => away'[l][x] = 0)
<1>0. UrlLife \in Nat /\ TokenLife \in Nat /\ TokenLife + UrlLife \in Nat
  BY TimeAssumption
<1>1. closed'[l] <= closed[l] + ticks /\ (Open(l)' => closed'[l] = 0)
  <2>1. closed'[l] = IF Open(l)' THEN 0 ELSE UpTo(closed[l] + ticks, UrlLife)
    BY Zenon DEF Watch
  <2>2. closed[l] + ticks \in Nat
    BY <1>0 DEF Counts
  <2>3. QED  BY <1>0, <2>1, <2>2, UpToBounds
<1>2. locked'[l] <= locked[l] + ticks /\ (Unlocked(l)' => locked'[l] = 0)
  <2> DEFINE most == TokenLife + UrlLife
             n == locked[l] + ticks
  <2>1. locked'[l] = IF Unlocked(l)' THEN 0 ELSE UpTo(n, most)
    BY Zenon DEF Watch
  <2>2. n \in Nat /\ most \in Nat
    BY <1>0 DEF Counts
  <2> HIDE DEF most, n
  <2>3. locked'[l] <= n /\ (Unlocked(l)' => locked'[l] = 0)
    BY <2>1, <2>2, UpToBounds
  <2>4. QED  BY <2>3 DEF n
<1>3. ASSUME NEW x \in Files
      PROVE  away'[l][x] <= away[l][x] + ticks /\ (InLink(l, x)' => away'[l][x] = 0)
  <2> DEFINE n == away[l][x] + ticks
  <2>1. away'[l][x] = IF InLink(l, x)' THEN 0 ELSE UpTo(n, UrlLife)
    BY Zenon DEF Watch
  <2>2. n \in Nat
    BY <1>0 DEF Counts
  <2> HIDE DEF n
  <2>3. away'[l][x] <= n /\ (InLink(l, x)' => away'[l][x] = 0)
    BY <1>0, <2>1, <2>2, UpToBounds
  <2>4. QED  BY <2>3 DEF n
<1>4. QED  BY <1>1, <1>2, <1>3

\* A token is left alone or new, and then the visitors know the password.
LEMMA TokenStep ==
    ASSUME TypeOK, Owner \/ Visitors, NEW l \in Links
    PROVE  token'[l] = token[l] \/ (token'[l] = TokenLife /\ Unlocked(l)')
<1>1. token' = token \/ \E k \in Links : Authenticate(k)
  BY DEF Owner, Visitors, CreateLink, InsertLink, EditLink, SaveEdit, RevokeLink, DeleteLink,
         Reorganise, ChangePlan, OpenLink, Download
<1>2. ASSUME NEW k \in Links, Authenticate(k)
      PROVE  token'[l] = token[l] \/ (token'[l] = TokenLife /\ Unlocked(l)')
  <2>1. token' = [token EXCEPT ![k] = TokenLife] /\ link' = link /\ link[k].password \in Known
    BY <1>2 DEF Authenticate, AccessMaxAge
  <2>2. token \in [Links -> 0 .. TokenLife]
    BY DEF TypeOK
  <2>3. QED  BY <2>1, <2>2 DEF Unlocked
<1>3. QED  BY <1>1, <1>2

\* A URL is left alone or new, and then a visitor had opened the link.
LEMMA UrlStep ==
    ASSUME TypeOK, Owner \/ Visitors, NEW l \in Links, NEW x \in Files
    PROVE  \/ url'[l][x] = url[l][x]
           \/ /\ url'[l][x] = UrlLife
              /\ InLink(l, x)'
              /\ \E v \in Public : At(v, "open") /\ job[v].link = l
<1>1. url' = url \/ \E v \in Public, y \in Files : Download(v, y)
  BY DEF Owner, Visitors, CreateLink, InsertLink, EditLink, SaveEdit, RevokeLink, DeleteLink,
         Reorganise, ChangePlan, OpenLink, Authenticate
<1>2. ASSUME NEW v \in Public, NEW y \in Files, Download(v, y), url' # url
      PROVE  \/ url'[l][x] = url[l][x]
             \/ /\ url'[l][x] = UrlLife
                /\ InLink(l, x)'
                /\ \E u \in Public : At(u, "open") /\ job[u].link = l
  <2>1. /\ CanAccessFile(job[v].link, y)
        /\ url' = [url EXCEPT ![job[v].link][y] = UrlLife]
        /\ link' = link /\ root' = root
        /\ At(v, "open")
    BY <1>2 DEF Download
  <2>2. url \in [Links -> [Files -> 0 .. UrlLife]]
    BY DEF TypeOK
  <2>3. CASE job[v].link = l /\ y = x
    <3>1. InLink(l, x)'
      BY <2>1, <2>3 DEF CanAccessFile, InLink
    <3>2. QED  BY <2>1, <2>2, <2>3, <3>1
  <2>4. CASE ~(job[v].link = l /\ y = x)
    BY <2>1, <2>2, <2>4
  <2>5. QED  BY <2>3, <2>4
<1>3. QED  BY <1>1, <1>2

\* A visitor in the middle of a request was there before or has just been let in.
LEMMA OpenStep ==
    ASSUME TypeOK, Owner \/ Visitors, NEW v \in Public, At(v, "open")'
    PROVE  \/ At(v, "open") /\ job'[v] = job[v]
           \/ /\ job'[v].link \in Links
              /\ Open(job'[v].link)
              /\ HasAccess(job'[v].link)
<1>0. v \notin Web /\ job \in [Web \cup Public -> Job]
  BY WorkersAssumption DEF TypeOK
<1>1. ASSUME Owner
      PROVE  job'[v] = job[v]
  <2>1. ASSUME NEW w \in Web, NEW l \in Links, CreateLink(w, l)
        PROVE  \E j : job' = [job EXCEPT ![w] = j]
    BY <2>1, Zenon DEF CreateLink
  <2>2. ASSUME NEW w \in Web, NEW l \in Links, EditLink(w, l)
        PROVE  \E j : job' = [job EXCEPT ![w] = j]
    BY <2>2, Zenon DEF EditLink
  <2>3. ASSUME NEW w \in Web, InsertLink(w) \/ SaveEdit(w)
        PROVE  \E j : job' = [job EXCEPT ![w] = j]
    BY <2>3, Zenon DEF InsertLink, SaveEdit, Return
  <2>4. (\E w \in Web : \E j : job' = [job EXCEPT ![w] = j]) \/ job' = job
    BY <1>1, <2>1, <2>2, <2>3, Zenon
       DEF Owner, RevokeLink, DeleteLink, Reorganise, ChangePlan
  <2>5. QED  BY <1>0, <2>4
<1>2. ASSUME NEW u \in Public, NEW l \in Links, OpenLink(u, l)
      PROVE  job'[v] = job[v] \/ (job'[v].link = l /\ Open(l) /\ HasAccess(l))
  <2>1. job' = [job EXCEPT ![u].pc = "open", ![u].link = l] /\ HasAccess(l) /\ Open(l)
    BY <1>2 DEF OpenLink, ValidLink, Open, Active
  <2>2. job[u] \in Job
    BY <1>0
  <2>3. CASE u = v
    <3>1. job'[v] = [job[v] EXCEPT !.pc = "open", !.link = l]
      BY <1>0, <2>1, <2>3
    <3>2. job'[v].link = l
      BY <2>2, <2>3, <3>1 DEF Job
    <3>3. QED  BY <2>1, <3>2
  <2>4. CASE u # v
    BY <1>0, <2>1, <2>4
  <2>5. QED  BY <2>3, <2>4
<1>3. ASSUME NEW u \in Public, NEW x \in Files, Download(u, x)
      PROVE  job'[v] = job[v]
  <2>1. job' = [job EXCEPT ![u] = IdleJob]
    BY <1>3 DEF Download, Return
  <2>2. u # v
    <3>1. IdleJob.pc # "open"
      BY DEF IdleJob
    <3>2. QED  BY <1>0, <2>1, <3>1 DEF At
  <2>3. QED  BY <1>0, <2>1, <2>2
<1>4. ASSUME NEW l \in Links, Authenticate(l)
      PROVE  job'[v] = job[v]
  BY <1>4 DEF Authenticate
<1>5. CASE Owner
  BY <1>1, <1>5 DEF At
<1>6. CASE Visitors
  BY <1>2, <1>3, <1>4, <1>6 DEF Visitors, At
<1>7. QED  BY <1>5, <1>6

\* What the counts and grants of one link and file are, as numbers.
LEMMA Numbers ==
    ASSUME TypeOK, NEW l \in Links
    PROVE  /\ token[l] \in Nat /\ token[l] <= TokenLife
           /\ closed[l] \in Nat /\ locked[l] \in Nat
           /\ \A x \in Files : url[l][x] \in Nat /\ url[l][x] <= UrlLife /\ away[l][x] \in Nat
  BY TimeAssumption DEF TypeOK

LEMMA InitVisitors == Init => VInv
<1> SUFFICES ASSUME Init PROVE VInv
  OBVIOUS
<1>1. GrantsRunOut /\ CountsStartAnew
  BY DEF Init, GrantsRunOut, CountsStartAnew
<1>2. VisitorsInTime
  BY DEF Init, VisitorsInTime, At, IdleJob
<1>3. QED  BY <1>1, <1>2, InitTypes DEF VInv

LEMMA RequestKeepsVInv ==
    ASSUME VInv, Owner \/ Visitors, Watch(0), TypeOK'
    PROVE  VInv'
<1>0. TokenLife \in Nat /\ UrlLife \in Nat
  BY TimeAssumption
<1>1. Counts /\ Counts'
  BY TypeParts DEF VInv, TypeOK, Counts
<1>2. CountsStartAnew'
  BY <1>1, CountsGrow DEF CountsStartAnew
<1>3. ASSUME NEW l \in Links
      PROVE  closed'[l] <= closed[l] /\ locked'[l] <= locked[l]
             /\ \A x \in Files : away'[l][x] <= away[l][x]
  <2>1. closed'[l] <= closed[l] + 0 /\ locked'[l] <= locked[l] + 0
        /\ \A x \in Files : away'[l][x] <= away[l][x] + 0
    BY <1>1, CountsGrow
  <2>2. QED  BY <2>1, Numbers DEF VInv
<1>4. GrantsRunOut'
  <2> SUFFICES ASSUME NEW l \in Links
               PROVE  /\ token'[l] > 0 => token'[l] + locked'[l] <= TokenLife
                      /\ \A x \in Files : url'[l][x] > 0 =>
                           /\ url'[l][x] + closed'[l] <= UrlLife
                           /\ url'[l][x] + away'[l][x] <= UrlLife
                           /\ url'[l][x] + locked'[l] <= TokenLife + UrlLife
    BY DEF GrantsRunOut
  <2>1. /\ token[l] \in Nat /\ closed[l] \in Nat /\ locked[l] \in Nat
        /\ token'[l] \in Nat /\ closed'[l] \in Nat /\ locked'[l] \in Nat
    <3>1. /\ token \in [Links -> 0 .. TokenLife] /\ token' \in [Links -> 0 .. TokenLife]
      BY DEF VInv, TypeOK
    <3>2. QED  BY <1>0, <1>1, <3>1 DEF Counts
  <2>2. token'[l] > 0 => token'[l] + locked'[l] <= TokenLife
    <3>1. token'[l] = token[l] \/ (token'[l] = TokenLife /\ locked'[l] = 0)
      BY TokenStep, <1>2 DEF VInv, CountsStartAnew
    <3>2. token[l] > 0 => token[l] + locked[l] <= TokenLife
      BY DEF VInv, GrantsRunOut
    <3>3. QED  BY <1>0, <1>3, <2>1, <3>1, <3>2
  <2>3. ASSUME NEW x \in Files, url'[l][x] > 0
        PROVE  /\ url'[l][x] + closed'[l] <= UrlLife
               /\ url'[l][x] + away'[l][x] <= UrlLife
               /\ url'[l][x] + locked'[l] <= TokenLife + UrlLife
    <3>1. url[l][x] \in Nat /\ away[l][x] \in Nat /\ away'[l][x] \in Nat
      <4>1. url \in [Links -> [Files -> 0 .. UrlLife]]
        BY DEF VInv, TypeOK
      <4>2. QED  BY <1>0, <1>1, <4>1 DEF Counts
    <3>2. CASE url'[l][x] = url[l][x]
      <4>1. /\ url[l][x] + closed[l] <= UrlLife
            /\ url[l][x] + away[l][x] <= UrlLife
            /\ url[l][x] + locked[l] <= TokenLife + UrlLife
        BY <2>3, <3>2 DEF VInv, GrantsRunOut
      <4>2. closed'[l] <= closed[l] /\ locked'[l] <= locked[l] /\ away'[l][x] <= away[l][x]
        BY <1>3
      <4>3. QED  BY <1>0, <2>1, <3>1, <3>2, <4>1, <4>2
    <3>3. CASE url'[l][x] = UrlLife /\ InLink(l, x)'
               /\ \E v \in Public : At(v, "open") /\ job[v].link = l
      <4>1. closed[l] = 0 /\ locked[l] <= TokenLife
        BY <3>3 DEF VInv, VisitorsInTime
      <4>2. away'[l][x] = 0
        BY <1>2, <3>3 DEF CountsStartAnew
      <4>3. closed'[l] <= closed[l] /\ locked'[l] <= locked[l]
        BY <1>3
      <4>4. QED  BY <1>0, <2>1, <3>3, <4>1, <4>2, <4>3
    <3>4. QED  BY <3>2, <3>3, UrlStep DEF VInv
  <2>4. QED  BY <2>2, <2>3
<1>5. VisitorsInTime'
  <2> SUFFICES ASSUME NEW v \in Public, At(v, "open")'
               PROVE  /\ job'[v].link \in Links
                      /\ closed'[job'[v].link] = 0
                      /\ locked'[job'[v].link] <= TokenLife
    BY DEF VisitorsInTime
  <2>1. PICK l : l = job'[v].link
    OBVIOUS
  <2>2. l \in Links /\ closed[l] = 0 /\ locked[l] <= TokenLife
    <3>1. CASE At(v, "open") /\ job'[v] = job[v]
      BY <2>1, <3>1 DEF VInv, VisitorsInTime
    <3>2. CASE l \in Links /\ Open(l) /\ HasAccess(l)
      <4>1. closed[l] = 0
        BY <3>2 DEF VInv, CountsStartAnew
      <4>2. CASE link[l].password = None
        <5>1. locked[l] = 0
          BY <3>2, <4>2 DEF VInv, CountsStartAnew, Unlocked
        <5>2. QED  BY <1>0, <3>2, <4>1, <5>1
      <4>3. CASE token[l] > 0
        <5>1. token[l] + locked[l] <= TokenLife
          BY <3>2, <4>3 DEF VInv, GrantsRunOut
        <5>2. token[l] \in Nat /\ locked[l] \in Nat
          BY <3>2, Numbers DEF VInv
        <5>3. QED  BY <1>0, <3>2, <4>1, <5>1, <5>2
      <4>4. QED  BY <3>2, <4>2, <4>3 DEF HasAccess
    <3>3. QED  BY <2>1, <3>1, <3>2, OpenStep DEF VInv
  <2>3. closed'[l] <= closed[l] /\ locked'[l] <= locked[l]
    BY <1>3, <2>2
  <2>4. closed'[l] \in Nat /\ locked'[l] \in Nat /\ locked[l] \in Nat
    BY <1>0, <1>1, <2>2 DEF Counts
  <2>5. QED  BY <1>0, <2>1, <2>2, <2>3, <2>4
<1>6. QED  BY <1>2, <1>4, <1>5 DEF VInv

LEMMA TickKeepsVInv ==
    ASSUME VInv, Tick, Watch(1), TypeOK'
    PROVE  VInv'
<1>0. TokenLife \in Nat /\ UrlLife \in Nat
  BY TimeAssumption
<1>1. Counts /\ Counts'
  BY TypeParts DEF VInv, TypeOK, Counts
<1>2. CountsStartAnew'
  BY <1>1, CountsGrow DEF CountsStartAnew
<1>3. GrantsRunOut'
  <2> SUFFICES ASSUME NEW l \in Links
               PROVE  /\ token'[l] > 0 => token'[l] + locked'[l] <= TokenLife
                      /\ \A x \in Files : url'[l][x] > 0 =>
                           /\ url'[l][x] + closed'[l] <= UrlLife
                           /\ url'[l][x] + away'[l][x] <= UrlLife
                           /\ url'[l][x] + locked'[l] <= TokenLife + UrlLife
    BY DEF GrantsRunOut
  <2>1. /\ token[l] \in Nat /\ closed[l] \in Nat /\ locked[l] \in Nat
        /\ closed'[l] \in Nat /\ locked'[l] \in Nat
    <3>1. token \in [Links -> 0 .. TokenLife]
      BY DEF VInv, TypeOK
    <3>2. QED  BY <1>0, <1>1, <3>1 DEF Counts
  <2>2. closed'[l] <= closed[l] + 1 /\ locked'[l] <= locked[l] + 1
        /\ \A x \in Files : away'[l][x] <= away[l][x] + 1
    BY <1>1, CountsGrow
  <2>3. token'[l] > 0 => token'[l] + locked'[l] <= TokenLife
    <3>1. token'[l] = Less(token[l])
      BY Zenon DEF Tick, TokenAges
    <3>2. token[l] > 0 => token[l] + locked[l] <= TokenLife
      BY DEF VInv, GrantsRunOut
    <3>3. token'[l] \in Nat /\ token'[l] <= token[l] /\ (token[l] > 0 => token'[l] = token[l] - 1)
      BY <2>1, <3>1, LessIsLess
    <3>4. QED  BY <1>0, <2>1, <2>2, <3>2, <3>3
  <2>4. ASSUME NEW x \in Files, url'[l][x] > 0
        PROVE  /\ url'[l][x] + closed'[l] <= UrlLife
               /\ url'[l][x] + away'[l][x] <= UrlLife
               /\ url'[l][x] + locked'[l] <= TokenLife + UrlLife
    <3>1. url[l][x] \in Nat /\ away[l][x] \in Nat /\ away'[l][x] \in Nat
      <4>1. url \in [Links -> [Files -> 0 .. UrlLife]]
        BY DEF VInv, TypeOK
      <4>2. QED  BY <1>0, <1>1, <4>1 DEF Counts
    <3>2. url'[l][x] = Less(url[l][x])
      BY Zenon DEF Tick
    <3>3. url'[l][x] \in Nat /\ url'[l][x] <= url[l][x]
          /\ (url[l][x] > 0 => url'[l][x] = url[l][x] - 1)
      BY <3>1, <3>2, LessIsLess
    <3>4. url[l][x] > 0
      BY <2>4, <3>1, <3>3
    <3>5. /\ url[l][x] + closed[l] <= UrlLife
          /\ url[l][x] + away[l][x] <= UrlLife
          /\ url[l][x] + locked[l] <= TokenLife + UrlLife
      BY <3>4 DEF VInv, GrantsRunOut
    <3>6. away'[l][x] <= away[l][x] + 1
      BY <2>2
    <3>7. QED  BY <1>0, <2>1, <2>2, <3>1, <3>3, <3>4, <3>5, <3>6
  <2>5. QED  BY <2>3, <2>4
<1>4. VisitorsInTime'
  <2> SUFFICES ASSUME NEW v \in Public
               PROVE  job'[v].pc # "open"
    BY DEF VisitorsInTime, At
  <2>1. job[v].pc = "idle"
    BY DEF Tick, At
  <2>2. job'[v] = [job[v] EXCEPT !.row.left = Less(@), !.chosen = Less(@)]
    BY Zenon DEF Tick
  <2>3. job[v] \in Job
    BY DEF VInv, TypeOK
  <2>4. job'[v].pc = job[v].pc
    BY <2>2, <2>3 DEF Job
  <2>5. QED  BY <2>1, <2>4
<1>5. QED  BY <1>2, <1>3, <1>4 DEF VInv

LEMMA VisitorsInvariant == Spec => []VInv
<1>1. VInv /\ [Next]_vars => VInv'
  <2> SUFFICES ASSUME VInv, [Next]_vars PROVE VInv'
    OBVIOUS
  <2>0. TypeOK'
    BY StepTypes DEF VInv
  <2>1. CASE (Owner \/ Visitors) /\ Watch(0)
    BY <2>0, <2>1, RequestKeepsVInv
  <2>2. CASE Tick /\ Watch(1)
    BY <2>0, <2>2, TickKeepsVInv
  <2>3. CASE UNCHANGED vars
    BY <2>3, <2>0 DEF vars, VInv, GrantsRunOut, CountsStartAnew, VisitorsInTime, Open, Active,
                 Unlocked, InLink, At
  <2>4. QED  BY <2>1, <2>2, <2>3 DEF Next
<1>2. QED  BY <1>1, InitVisitors, PTL DEF Spec

LEMMA GrantsEnd == VInv => ClosedGivesNothing /\ UnsharedGivesNothing /\ LockedGivesNothing
<1> SUFFICES ASSUME VInv, NEW l \in Links, NEW x \in Files
             PROVE  /\ closed[l] = UrlLife => url[l][x] = 0
                    /\ away[l][x] = UrlLife => url[l][x] = 0
                    /\ locked[l] = TokenLife + UrlLife => url[l][x] = 0
  BY Zenon DEF ClosedGivesNothing, UnsharedGivesNothing, LockedGivesNothing
<1>1. url[l][x] \in Nat
  BY Numbers DEF VInv
<1>2. url[l][x] > 0 => /\ url[l][x] + closed[l] <= UrlLife
                       /\ url[l][x] + away[l][x] <= UrlLife
                       /\ url[l][x] + locked[l] <= TokenLife + UrlLife
  BY DEF VInv, GrantsRunOut
<1>3. QED  BY <1>1, <1>2, TimeAssumption

\* A link that has been closed for as long as a URL lasts gives nothing.
THEOREM ClosedCorrect == Spec => []ClosedGivesNothing
  BY VisitorsInvariant, GrantsEnd, PTL

\* Nor does it give a file that has been out of it for as long.
THEOREM UnsharedCorrect == Spec => []UnsharedGivesNothing
  BY VisitorsInvariant, GrantsEnd, PTL

\* Nor, with a new password, anything to visitors who do not know it, once a
\* token and a URL got with it have run out.
THEOREM LockedCorrect == Spec => []LockedGivesNothing
  BY VisitorsInvariant, GrantsEnd, PTL

-----------------------------------------------------------------------------
(* How far the number of active links may overshoot *)

ActiveLinks == {l \in Links : Active(l)}
Busy == {w \in Web : job[w].pc \in {"insert", "save"}}
JobLinks(workers) == {job[w].link : w \in workers}

\* The links that are active or that a worker is about to store.
Occupied == ActiveLinks \cup JobLinks(Busy)

SeatsKept ==
    /\ IsFiniteSet(Occupied)
    /\ \E c \in Configs : Cardinality(Occupied) <= c.links + Cardinality(Web) - 1

LInv == TypeOK /\ SeatsKept

LEMMA LinksOfPlan == \A c \in Configs : c.links \in Nat
  BY ConfigAssumption DEF Config

LEMMA ImageBound ==
    ASSUME NEW V, IsFiniteSet(V), NEW f
    PROVE  /\ IsFiniteSet({f[v] : v \in V})
           /\ Cardinality({f[v] : v \in V}) <= Cardinality(V)
<1> DEFINE T == {f[v] : v \in V}
           g == [v \in V |-> f[v]]
<1>1. g \in Surjection(V, T)
  BY DEF Surjection
<1> HIDE DEF g, T
<1>2. IsFiniteSet(T) /\ Cardinality(T) <= Cardinality(V)
  BY <1>1, FS_Surjection
<1>3. QED  BY <1>2 DEF T

\* A step that occupies no other link keeps the bound.
LEMMA FewerSeats ==
    ASSUME SeatsKept, Occupied' \subseteq Occupied
    PROVE  SeatsKept'
<1>1. IsFiniteSet(Occupied') /\ Cardinality(Occupied') <= Cardinality(Occupied)
  BY FS_Subset DEF SeatsKept
<1>2. PICK c \in Configs : Cardinality(Occupied) <= c.links + Cardinality(Web) - 1
  BY Zenon DEF SeatsKept
<1>3. c.links \in Nat /\ Cardinality(Web) \in Nat
  BY LinksOfPlan, FS_CardinalityType, WorkersAssumption
<1>4. Cardinality(Occupied) \in Nat /\ Cardinality(Occupied') \in Nat
  BY <1>1, FS_CardinalityType DEF SeatsKept
<1>5. Cardinality(Occupied') <= c.links + Cardinality(Web) - 1
  BY <1>1, <1>2, <1>3, <1>4
<1>6. QED  BY <1>1, <1>5, Zenon DEF SeatsKept

LEMMA InitSeats == Init => LInv
<1> SUFFICES ASSUME Init PROVE SeatsKept
  BY InitTypes DEF LInv
<1>1. Occupied = {}
  BY DEF Init, Occupied, ActiveLinks, Active, NoLink, JobLinks, Busy, IdleJob
<1>2. PICK c \in Configs : c.links \in Nat
  BY ConfigAssumption, LinksOfPlan
<1>3. Cardinality(Web) \in Nat /\ Cardinality(Web) # 0
  BY WorkersAssumption, FS_CardinalityType, FS_EmptySet
<1>4. Cardinality(Occupied) <= c.links + Cardinality(Web) - 1
  BY <1>1, <1>2, <1>3, FS_EmptySet
<1>5. QED  BY <1>1, <1>4, FS_EmptySet DEF SeatsKept

\* The one step that takes a seat looks at the active links first.
LEMMA CreateKeepsSeats ==
    ASSUME LInv, NEW w \in Web, NEW l \in Links, CreateLink(w, l)
    PROVE  SeatsKept'
<1> DEFINE others == Web \ {w}
           T == {job[v].link : v \in others}
<1>0. IsFiniteSet(Web) /\ Cardinality(Web) \in Nat /\ job \in [Web \cup Public -> Job]
  BY WorkersAssumption, FS_CardinalityType DEF LInv, TypeOK
<1>1. IsFiniteSet(others) /\ Cardinality(others) = Cardinality(Web) - 1
  BY <1>0, FS_RemoveElement
<1>2. IsFiniteSet(T) /\ Cardinality(T) <= Cardinality(others)
  <2> DEFINE f == [v \in others |-> job[v].link]
  <2>1. T = {f[v] : v \in others}
    OBVIOUS
  <2> HIDE DEF T, f, others
  <2>2. QED  BY <1>1, <2>1, ImageBound
<1>3. IsFiniteSet(ActiveLinks) /\ Cardinality(ActiveLinks) < config.links
  <2>1. IsFiniteSet(ActiveLinks)
    BY FS_Subset DEF LInv, SeatsKept, Occupied
  <2>2. QED  BY <2>1 DEF CreateLink, BelowLimit, ActiveLinks
<1>4. Occupied' \subseteq (ActiveLinks \cup T) \cup {l}
  <2>1. PICK j : job' = [job EXCEPT ![w] = j] /\ j.link = l
    <3>1. PICK files \in SUBSET Files, folders \in SUBSET Roots,
               chosen \in Choices \cup {None}, password \in Passwords \cup {None} :
          job' = [job EXCEPT ![w] =
              [IdleJob EXCEPT !.pc = "insert", !.link = l, !.chosen = chosen,
                 !.row = [present |-> TRUE, files |-> files, folders |-> folders, left |-> None,
                          revoked |-> FALSE, password |-> password]]]
      BY Zenon DEF CreateLink
    <3>2. [IdleJob EXCEPT !.pc = "insert", !.link = l, !.chosen = chosen,
             !.row = [present |-> TRUE, files |-> files, folders |-> folders, left |-> None,
                      revoked |-> FALSE, password |-> password]].link = l
      BY DEF IdleJob
    <3>3. QED  BY <3>1, <3>2, Zenon
  <2>2. ActiveLinks' = ActiveLinks
    BY DEF CreateLink, ActiveLinks, Active
  <2>3. ASSUME NEW v \in Web
        PROVE  job'[v].link \in T \cup {l}
    BY <1>0, <2>1
  <2>4. QED  BY <2>2, <2>3 DEF Occupied, JobLinks, Busy
<1> DEFINE A == Cardinality(ActiveLinks)
           B == Cardinality(T)
<1>5. IsFiniteSet(ActiveLinks \cup T) /\ Cardinality(ActiveLinks \cup T) <= A + B
  <2>1. Cardinality(ActiveLinks \cup T) = A + B - Cardinality(ActiveLinks \cap T)
        /\ IsFiniteSet(ActiveLinks \cup T)
    BY <1>2, <1>3, FS_Union
  <2>2. Cardinality(ActiveLinks \cap T) \in Nat /\ A \in Nat /\ B \in Nat
    BY <1>2, <1>3, FS_Subset, FS_CardinalityType
  <2>3. QED  BY <2>1, <2>2
<1> HIDE DEF T
<1> DEFINE U == (ActiveLinks \cup T) \cup {l}
<1>6. IsFiniteSet(U) /\ Cardinality(U) <= A + B + 1
  <2>1. IsFiniteSet(U) /\ Cardinality(U) \in {Cardinality(ActiveLinks \cup T),
                                             Cardinality(ActiveLinks \cup T) + 1}
    BY <1>5, FS_AddElement
  <2>2. A \in Nat /\ B \in Nat /\ Cardinality(ActiveLinks \cup T) \in Nat
    BY <1>2, <1>3, <1>5, FS_CardinalityType
  <2>3. QED  BY <1>5, <2>1, <2>2
<1>7. IsFiniteSet(Occupied') /\ Cardinality(Occupied') <= Cardinality(U)
  BY <1>4, <1>6, FS_Subset
<1>8. config.links \in Nat /\ config \in Configs
  BY LinksOfPlan DEF LInv, TypeOK
<1>9. Cardinality(Occupied') <= config.links + Cardinality(Web) - 1
  <2>1. A \in Nat /\ B \in Nat /\ Cardinality(U) \in Nat /\ Cardinality(Occupied') \in Nat
    BY <1>2, <1>3, <1>6, <1>7, FS_CardinalityType
  <2>2. A < config.links /\ B <= Cardinality(Web) - 1
    BY <1>1, <1>2, <1>3
  <2> HIDE DEF A, B, U
  <2>3. QED  BY <1>0, <1>6, <1>7, <1>8, <2>1, <2>2
<1>10. QED  BY <1>7, <1>8, <1>9, Zenon DEF SeatsKept

\* Every other step of the owner stores a link that had its seat, or frees one.
LEMMA OwnerKeepsSeats ==
    ASSUME LInv, Owner
    PROVE  SeatsKept'
<1>0. job \in [Web \cup Public -> Job] /\ link \in [Links -> Row]
  BY DEF LInv, TypeOK
<1>1. ASSUME NEW w \in Web, NEW l \in Links, EditLink(w, l)
      PROVE  Occupied' \subseteq Occupied
  <2>1. PICK j : job' = [job EXCEPT ![w] = j] /\ j.link = l
    <3>1. PICK files \in SUBSET Files, folders \in SUBSET Roots,
               named \in SUBSET {"files", "folders"},
               chosen \in Choices \cup {None}, password \in Passwords \cup {None} :
          job' = [job EXCEPT ![w] =
              [pc |-> "save", link |-> l, chosen |-> chosen, named |-> named,
               row |-> [link[l] EXCEPT !.files = files, !.folders = folders,
                          !.password = IF password = None THEN @ ELSE password]]]
      BY <1>1, Zenon DEF EditLink
    <3>2. [pc |-> "save", link |-> l, chosen |-> chosen, named |-> named,
           row |-> [link[l] EXCEPT !.files = files, !.folders = folders,
                      !.password = IF password = None THEN @ ELSE password]].link = l
      OBVIOUS
    <3>3. QED  BY <3>1, <3>2, Zenon
  <2>2. ActiveLinks' = ActiveLinks /\ l \in ActiveLinks
    BY <1>1 DEF EditLink, ActiveLinks, Active, Editable, Open
  <2>3. \A v \in Busy' : v = w \/ (v \in Busy /\ job'[v] = job[v])
    BY <1>0, <2>1 DEF Busy
  <2>4. job'[w].link = l
    BY <1>0, <2>1
  <2>5. QED  BY <2>2, <2>3, <2>4 DEF Occupied, JobLinks
<1>2. ASSUME NEW w \in Web, InsertLink(w) \/ SaveEdit(w)
      PROVE  Occupied' \subseteq Occupied
  <2>1. PICK row : link' = [link EXCEPT ![job[w].link] = row]
    BY <1>2, Zenon DEF InsertLink, SaveEdit
  <2>2. w \in Busy /\ job' = [job EXCEPT ![w] = IdleJob]
    BY <1>2 DEF InsertLink, SaveEdit, Return, Busy, At
  <2>3. ActiveLinks' \subseteq ActiveLinks \cup {job[w].link}
    BY <1>0, <2>1 DEF ActiveLinks, Active
  <2>4. \A v \in Busy' : v \in Busy /\ job'[v] = job[v]
    BY <1>0, <2>2 DEF Busy, IdleJob
  <2>5. QED  BY <2>2, <2>3, <2>4 DEF Occupied, JobLinks
<1>3. ASSUME NEW l \in Links, RevokeLink(l) \/ DeleteLink(l)
      PROVE  Occupied' \subseteq Occupied
  <2>1. ActiveLinks' \subseteq ActiveLinks
    <3>1. CASE RevokeLink(l)
      <4> DEFINE row == [link[l] EXCEPT !.revoked = TRUE]
      <4>1. link' = [link EXCEPT ![l] = row] /\ row.present = link[l].present
            /\ row.left = link[l].left
        BY <1>0, <3>1 DEF RevokeLink, Row
      <4> HIDE DEF row
      <4>2. QED  BY <1>0, <4>1 DEF ActiveLinks, Active
    <3>2. CASE DeleteLink(l)
      BY <1>0, <3>2 DEF DeleteLink, ActiveLinks, Active, NoLink
    <3>3. QED  BY <1>3, <3>1, <3>2
  <2>2. JobLinks(Busy)' = JobLinks(Busy)
    BY <1>3 DEF RevokeLink, DeleteLink, JobLinks, Busy
  <2>3. QED  BY <2>1, <2>2 DEF Occupied
<1>4. ASSUME (\E x \in Files : Reorganise(x)) \/ ChangePlan
      PROVE  Occupied' \subseteq Occupied
  BY <1>4 DEF Reorganise, ChangePlan, Occupied, ActiveLinks, Active, JobLinks, Busy
<1>5. ASSUME NEW w \in Web, NEW l \in Links, CreateLink(w, l)
      PROVE  SeatsKept'
  BY <1>5, CreateKeepsSeats
<1>6. QED  BY <1>1, <1>2, <1>3, <1>4, <1>5, FewerSeats DEF Owner, LInv

LEMMA OthersKeepSeats ==
    ASSUME LInv, Visitors \/ Tick
    PROVE  Occupied' \subseteq Occupied
<1>0. job \in [Web \cup Public -> Job] /\ link \in [Links -> Row] /\ Web \cap Public = {}
  BY WorkersAssumption DEF LInv, TypeOK
<1>1. CASE Visitors
  <2>1. link' = link
    BY <1>1 DEF Visitors, Authenticate, OpenLink, Download
  <2>2. \A w \in Web : job'[w] = job[w]
    <3>1. ASSUME NEW v \in Public, NEW l \in Links, OpenLink(v, l)
          PROVE  \A w \in Web : job'[w] = job[w]
      BY <1>0, <3>1 DEF OpenLink
    <3>2. ASSUME NEW v \in Public, NEW x \in Files, Download(v, x)
          PROVE  \A w \in Web : job'[w] = job[w]
      BY <1>0, <3>2 DEF Download, Return
    <3>3. ASSUME NEW l \in Links, Authenticate(l)
          PROVE  \A w \in Web : job'[w] = job[w]
      BY <3>3 DEF Authenticate
    <3>4. QED  BY <1>1, <3>1, <3>2, <3>3 DEF Visitors
  <2>3. QED  BY <2>1, <2>2 DEF Occupied, ActiveLinks, Active, JobLinks, Busy
<1>2. CASE Tick
  <2>1. ASSUME NEW l \in Links
        PROVE  link'[l].present = link[l].present /\ (link[l].left = 0 => link'[l].left = 0)
    <3>1. link'[l] = [link[l] EXCEPT !.left = Less(@)]
      BY <1>2, Zenon DEF Tick
    <3>2. link'[l].present = link[l].present /\ link'[l].left = Less(link[l].left)
      BY <1>0, <3>1 DEF Row
    <3>3. QED  BY <3>2 DEF Less
  <2>2. ASSUME NEW w \in Web
        PROVE  job'[w].pc = job[w].pc /\ job'[w].link = job[w].link
    <3>1. job'[w] = [job[w] EXCEPT !.row.left = Less(@), !.chosen = Less(@)]
      BY <1>2, Zenon DEF Tick
    <3>2. job[w] \in Job
      BY <1>0
    <3>3. QED  BY <3>1, <3>2 DEF Job
  <2>3. QED  BY <2>1, <2>2 DEF Occupied, ActiveLinks, Active, JobLinks, Busy
<1>3. QED  BY <1>1, <1>2

LEMMA SeatsInvariant == Spec => []LInv
<1>1. LInv /\ [Next]_vars => LInv'
  <2> SUFFICES ASSUME LInv, [Next]_vars PROVE SeatsKept'
    BY StepTypes DEF LInv
  <2>1. CASE Owner
    BY <2>1, OwnerKeepsSeats
  <2>2. CASE Visitors \/ Tick
    BY <2>2, OthersKeepSeats, FewerSeats DEF LInv
  <2>3. CASE UNCHANGED vars
    BY <2>3, FewerSeats DEF LInv, vars, Occupied, ActiveLinks, Active, JobLinks, Busy
  <2>4. QED  BY <2>1, <2>2, <2>3 DEF Next
<1>2. QED  BY <1>1, InitSeats, PTL DEF Spec

LEMMA SeatsBoundLinks == LInv => LimitOvershoot
<1> SUFFICES ASSUME LInv PROVE LimitOvershoot
  OBVIOUS
<1>1. ActiveLinks \subseteq Occupied /\ IsFiniteSet(Occupied)
  BY DEF LInv, SeatsKept, Occupied
<1>2. Cardinality(ActiveLinks) <= Cardinality(Occupied)
  BY <1>1, FS_Subset
<1>3. Cardinality(ActiveLinks) \in Nat /\ Cardinality(Occupied) \in Nat
  BY <1>1, FS_Subset, FS_CardinalityType
<1>4. PICK c \in Configs : Cardinality(Occupied) <= c.links + Cardinality(Web) - 1
  BY Zenon DEF LInv, SeatsKept
<1>5. c.links \in Nat /\ Cardinality(Web) \in Nat
  BY LinksOfPlan, FS_CardinalityType, WorkersAssumption
<1>6. Cardinality(ActiveLinks) <= c.links + Cardinality(Web) - 1
  BY <1>2, <1>3, <1>4, <1>5
<1>7. QED  BY <1>6, Zenon DEF LimitOvershoot, ActiveLinks

\* However many links, workers and plans there are, the links that are active are
\* at most one more, for each worker but one, than some plan of the owner's allows.
THEOREM LimitCorrect == Spec => []LimitOvershoot
  BY SeatsInvariant, SeatsBoundLinks, PTL
=============================================================================
