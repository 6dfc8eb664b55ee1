---------------------------- MODULE AppSyncProofs ----------------------------
(***************************************************************************)
(* Proofs about AppSync for any sets of applications, threads, groups and  *)
(* policies and any bounds: type correctness, that a request to reset an   *)
(* application is never overwritten, and that an application that is up to *)
(* date in the storage has the configuration in the storage.               *)
(***************************************************************************)
EXTENDS AppSync, TLAPS

\* A thread that is inside a call works on an application.
WorkInv ==
  /\ \A x \in Users : usr[x].pc # "idle" => usr[x].app \in Apps
  /\ \A u \in Updaters : upd[u].pc # "idle" => upd[u].app \in Apps

Typed == TypeOK /\ WorkInv

------------------------------------------------------------------------------
(* Types *)

LEMMA InitTyped == Init => Typed
<1> SUFFICES ASSUME Init PROVE Typed
  OBVIOUS
<1> USE AppSyncAssumption DEF Init
<1>1. NoRow \in Rows /\ NewRow(1) \in Rows
  BY DEF NoRow, NewRow, Rows, DefaultPolicy, Versions, SyncStates
<1>7. OldCerts \in SUBSET Certs
  BY DEF OldCerts, Certs
<1>8. [NewRow(1) EXCEPT !.mem = OldCerts] \in Rows
  BY <1>1, <1>7 DEF Rows
<1>2. NoCall \in Calls /\ NoJob \in Jobs
  BY DEF NoCall, NoJob, Calls, Jobs, DefaultPolicy, Versions, UserPcs,
         UpdaterPcs, AppStates, SyncStates
<1>3. /\ heard \in [Apps -> Infos]
      /\ dev \in [Apps -> Devices]
      /\ spent \in Bounds
  BY <1>7 DEF Infos, Devices, Bounds, AppStates, DefaultPolicy, Versions
<1>4. queue \in Seq(Events)
  OBVIOUS
<1>5. TypeOK
  BY <1>1, <1>2, <1>3, <1>4, <1>8 DEF TypeOK
<1>6. WorkInv
  BY <1>2 DEF WorkInv, NoCall, NoJob
<1> QED
  BY <1>5, <1>6 DEF Typed


\* Updating one field of one record keeps the type.
LEMMA RowUpdates ==
  ASSUME NEW f \in [Apps -> Rows], NEW a \in Apps
  PROVE  /\ \A v \in SyncStates : [f EXCEPT ![a].sync = v] \in [Apps -> Rows]
         /\ \A n \in Nat : [f EXCEPT ![a].id = n] \in [Apps -> Rows]
         /\ \A n \in Nat : [f EXCEPT ![a].mf = n] \in [Apps -> Rows]
         /\ \A m \in SUBSET Certs : [f EXCEPT ![a].mem = m] \in [Apps -> Rows]
         /\ \A p \in Versions : [f EXCEPT ![a].pol = p] \in [Apps -> Rows]
         /\ \A r \in Rows : [f EXCEPT ![a] = r] \in [Apps -> Rows]
         /\ f[a].mem \in SUBSET Certs /\ f[a].pol \in Versions
<1>1. f[a] \in Rows
  OBVIOUS
<1>2. /\ f[a].mem \in SUBSET Certs /\ f[a].pol \in Versions
      /\ \A v \in SyncStates : [f[a] EXCEPT !.sync = v] \in Rows
      /\ \A n \in Nat : [f[a] EXCEPT !.id = n] \in Rows
      /\ \A n \in Nat : [f[a] EXCEPT !.mf = n] \in Rows
      /\ \A p \in Versions : [f[a] EXCEPT !.pol = p] \in Rows
  BY <1>1 DEF Rows
<1>3. ASSUME NEW m \in SUBSET Certs PROVE [f[a] EXCEPT !.mem = m] \in Rows
  BY <1>1 DEF Rows
<1>4. \A r \in Rows : [f EXCEPT ![a] = r] \in [Apps -> Rows]
  OBVIOUS
<1> QED
  BY <1>2, <1>3, <1>4

LEMMA UserMoves ==
  ASSUME Typed, NEW x \in Users, NEW c \in Calls, c.pc # "idle" => c.app \in Apps,
         usr' = [usr EXCEPT ![x] = c]
  PROVE  /\ usr' \in [Users -> Calls]
         /\ \A y \in Users : usr'[y].pc # "idle" => usr'[y].app \in Apps
BY DEF Typed, TypeOK, WorkInv

LEMMA UnclaimedType == ASSUME NEW d \in Devices PROVE Unclaimed(d) \in Devices
<1>1. {} \in SUBSET Certs
  OBVIOUS
<1>2. DefaultPolicy \in Versions
  BY DEF DefaultPolicy, Versions
<1> HIDE DEF DefaultPolicy
<1> QED
  BY <1>1, <1>2 DEF Unclaimed, Devices, AppStates

LEMMA UserTyped ==
  ASSUME Typed, NEW x \in Users, User(x)
  PROVE  Typed'
<1> USE AppSyncAssumption DEF Typed
<1>0. x \in Threads
  BY DEF Threads
<1>1. DefaultPolicy \in Versions /\ NoCall \in Calls /\ NoCall.pc = "idle"
  BY DEF DefaultPolicy, Versions, NoCall, Calls, UserPcs
<1>2. NoRow \in Rows /\ \A n \in Nat : NewRow(n) \in Rows
  BY <1>1 DEF NoRow, NewRow, Rows, SyncStates
<1>3. ASSUME NEW a \in Apps, NEW pc \in UserPcs
      PROVE  /\ Call(x, pc, a) \in Calls
             /\ Call(x, pc, a).app = a
             /\ \A n \in Nat : /\ [Call(x, pc, a) EXCEPT !.ser = n] \in Calls
                               /\ [Call(x, pc, a) EXCEPT !.ser = n].app = a
             /\ \A p \in Versions : /\ [Call(x, pc, a) EXCEPT !.pol = p] \in Calls
                                    /\ [Call(x, pc, a) EXCEPT !.pol = p].app = a
             /\ \A b \in BOOLEAN : [Call(x, pc, a) EXCEPT !.bump = b] \in Calls
  <2> DEFINE c == Call(x, pc, a)
  <2>1. c \in Calls /\ c.app = a
    BY <1>1 DEF NoCall, Calls, Call
  <2> HIDE DEF c
  <2>2. \A n \in Nat : [c EXCEPT !.ser = n] \in Calls /\ [c EXCEPT !.ser = n].app = a
    BY <2>1 DEF Calls
  <2>3. \A p \in Versions : [c EXCEPT !.pol = p] \in Calls /\ [c EXCEPT !.pol = p].app = a
    BY <2>1 DEF Calls
  <2>4. \A b \in BOOLEAN : [c EXCEPT !.bump = b] \in Calls
    BY <2>1 DEF Calls
  <2> QED
    BY <2>1, <2>2, <2>3, <2>4 DEF c
<1>4. ASSUME NEW op, Starts(x, op)
      PROVE  spent' \in Bounds
  <2>1. spent \in Bounds
    BY DEF TypeOK
  <2>2. spent' = [spent EXCEPT !.ops = @ + 1]
    BY <1>4 DEF Starts
  <2> QED
    BY <2>1, <2>2 DEF Bounds
<1>5. ASSUME usr' \in [Users -> Calls],
             \A y \in Users : usr'[y].pc # "idle" => usr'[y].app \in Apps,
             row' \in [Apps -> Rows], serial' \in Nat,
             leak' \in Threads \cup {Nobody}, counter' \in Nat,
             lock' \in Threads \cup {Nobody}, upd' = upd, pom' = pom,
             queue' \in Seq(Events), heard' = heard, dev' \in [Apps -> Devices],
             spent' \in Bounds
      PROVE  Typed'
  BY <1>5 DEF TypeOK, WorkInv
<1>6. ASSUME NEW a \in Apps, NEW b \in BOOLEAN, ThenUpdated(x, a, b)
      PROVE  /\ usr' \in [Users -> Calls]
             /\ \A y \in Users : usr'[y].pc # "idle" => usr'[y].app \in Apps
  <2> DEFINE c == [Call(x, "updated", a) EXCEPT !.bump = b]
  <2>1. c \in Calls /\ c.app \in Apps
    BY <1>3 DEF UserPcs, Call, NoCall
  <2> QED
    BY <1>6, <2>1, UserMoves DEF ThenUpdated
<1>7. ASSUME Return(x)
      PROVE  /\ usr' \in [Users -> Calls]
             /\ \A y \in Users : usr'[y].pc # "idle" => usr'[y].app \in Apps
  BY <1>7, <1>1, UserMoves DEF Return
<1>8. ASSUME NEW pc \in UserPcs, Goto(x, pc), usr[x].pc # "idle"
      PROVE  /\ usr' \in [Users -> Calls]
             /\ \A y \in Users : usr'[y].pc # "idle" => usr'[y].app \in Apps
  <2> DEFINE c == [usr[x] EXCEPT !.pc = pc]
  <2>1. c \in Calls
    BY DEF TypeOK, Calls
  <2>2. c.app \in Apps
    BY <1>8 DEF WorkInv, TypeOK, Calls
  <2>3. usr' = [usr EXCEPT ![x] = c]
    BY <1>8 DEF Goto
  <2> QED
    BY <2>1, <2>2, <2>3, UserMoves
<1>9. /\ serial \in Nat /\ serial + 1 \in Nat /\ counter \in Nat /\ counter + 1 \in Nat
      /\ row \in [Apps -> Rows] /\ queue \in Seq(Events) /\ dev \in [Apps -> Devices]
      /\ leak \in Threads \cup {Nobody} /\ lock \in Threads \cup {Nobody}
      /\ spent \in Bounds /\ usr \in [Users -> Calls]
  BY DEF TypeOK
<1>10. usr[x].pc # "idle" => usr[x].app \in Apps
  BY DEF WorkInv
<1>27. ASSUME NEW as \in SUBSET Apps, NEW op \in {"updated", "reset"}, ForEach(x, as, op)
      PROVE  /\ usr' \in [Users -> Calls]
             /\ \A y \in Users : usr'[y].pc # "idle" => usr'[y].app \in Apps
  <2>1. PICK a \in as :
          usr' = [usr EXCEPT ![x] = [Call(x, op, a) EXCEPT
                                       !.bump = TRUE, !.todo = as \ {a}, !.each = op]]
    BY <1>27 DEF ForEach
  <2> DEFINE c == [Call(x, op, a) EXCEPT !.bump = TRUE, !.todo = as \ {a}, !.each = op]
  <2>2. as \ {a} \in SUBSET Apps /\ op \in UserPcs /\ a \in Apps
    BY DEF UserPcs
  <2>3. Call(x, op, a) \in Calls /\ Call(x, op, a).app = a
    BY <2>2, <1>3
  <2>4. c \in Calls /\ c.app \in Apps
    BY <2>2, <2>3 DEF Calls
  <2> HIDE DEF c
  <2> QED
    BY <2>1, <2>4, UserMoves DEF c
<1>28. ASSUME Proceed(x), usr[x].pc # "idle"
      PROVE  /\ usr' \in [Users -> Calls]
             /\ \A y \in Users : usr'[y].pc # "idle" => usr'[y].app \in Apps
  <2>1. usr[x] \in Calls
    BY DEF TypeOK
  <2>2. CASE Return(x)
    BY <2>2, <1>7
  <2>3. CASE ~Return(x)
    <3>1. PICK a \in usr[x].todo :
            usr' = [usr EXCEPT ![x] = [usr[x] EXCEPT !.pc = usr[x].each, !.app = a,
                                                     !.todo = usr[x].todo \ {a}]]
      BY <1>28, <2>3 DEF Proceed
    <3> DEFINE c == [usr[x] EXCEPT !.pc = usr[x].each, !.app = a,
                                   !.todo = usr[x].todo \ {a}]
    <3>2. usr[x].todo \ {a} \in SUBSET Apps /\ usr[x].each \in UserPcs /\ a \in Apps
      BY <2>1 DEF Calls, UserPcs
    <3>3. c \in Calls /\ c.app \in Apps
      BY <2>1, <3>2 DEF Calls
    <3> HIDE DEF c
    <3> QED
      BY <3>1, <3>3, UserMoves DEF c
  <2> QED
    BY <2>2, <2>3
<1>29. ASSUME NEW g \in Groups, RemoveGroup(x, g) PROVE Typed'
  <2> USE <1>29 DEF RemoveGroup
  <2> DEFINE members == {a \in Apps : row[a].managed /\ \E c \in row[a].mem : c.grp = g}
             kept(a) == {c \in row[a].mem : c.grp # g}
  <2>1. ASSUME NEW a \in Apps PROVE [row[a] EXCEPT !.mem = kept(a)] \in Rows
    <3>1. kept(a) \in SUBSET Certs /\ row[a] \in Rows
      BY <1>9, RowUpdates
    <3> QED
      BY <3>1 DEF Rows
  <2>2. row' \in [Apps -> Rows]
    BY <2>1
  <2>3. members \in SUBSET Apps /\ ForEach(x, members, "updated")
    OBVIOUS
  <2> HIDE DEF members
  <2> QED
    BY <2>2, <2>3, <1>4, <1>5, <1>9, <1>27
<1>30. ASSUME NEW as \in SUBSET Apps, RemoveIdentity(x, as) PROVE Typed'
  <2> USE <1>30 DEF RemoveIdentity
  <2>1. ASSUME NEW a \in Apps PROVE [row[a] EXCEPT !.id = 0] \in Rows /\ row[a] \in Rows
    <3>1. row[a] \in Rows
      BY <1>9
    <3> QED
      BY <3>1 DEF Rows
  <2>2. row' \in [Apps -> Rows]
    BY <2>1
  <2> QED
    BY <2>2, <1>4, <1>5, <1>9, <1>27
<1>31. ASSUME ResetHolder(x) PROVE Typed'
  <2> USE <1>31 DEF ResetHolder
  <2>1. usr[x].app \in Apps
    BY <1>10
  <2>2. row' \in [Apps -> Rows]
    <3>1. "WILL_RESET" \in SyncStates /\ row \in [Apps -> Rows]
      BY <1>9 DEF SyncStates
    <3>2. [row EXCEPT ![usr[x].app].sync = "WILL_RESET"] \in [Apps -> Rows]
      BY <2>1, <3>1, RowUpdates
    <3>3. row' = row \/ row' = [row EXCEPT ![usr[x].app].sync = "WILL_RESET"]
      OBVIOUS
    <3> QED
      BY <3>1, <3>2, <3>3
  <2>3. Goto(x, "notify") \/ Return(x)
    OBVIOUS
  <2>4. leak' \in Threads \cup {Nobody}
    BY <1>0, <1>9
  <2> QED
    BY <2>2, <2>3, <2>4, <1>5, <1>7, <1>8, <1>9 DEF UserPcs
<1>11. ASSUME NEW a \in Apps, NEW g \in Groups, InstallMembership(x, a, g) PROVE Typed'
  <2> USE <1>11 DEF InstallMembership
  <2>1. row[a].mem \cup {[grp |-> g, ser |-> serial]} \in SUBSET Certs
    BY <1>9, RowUpdates DEF Certs
  <2>2. row' \in [Apps -> Rows]
    BY <2>1, <1>9, RowUpdates
  <2> QED
    BY <2>2, <1>4, <1>5, <1>6, <1>9
<1>12. ASSUME NEW a \in Apps, NEW g \in Groups, RemoveMembership(x, a, g) PROVE Typed'
  <2> USE <1>12 DEF RemoveMembership
  <2>1. PICK c \in row[a].mem : row' = [row EXCEPT ![a].mem = @ \ {c}]
    OBVIOUS
  <2>2. row[a].mem \ {c} \in SUBSET Certs
    BY <1>9, RowUpdates
  <2>3. row' \in [Apps -> Rows]
    BY <2>1, <2>2, <1>9, RowUpdates
  <2> QED
    BY <2>3, <1>4, <1>5, <1>6, <1>9
<1>13. ASSUME NEW a \in Apps, NEW p \in Policies, UpdatePolicy(x, a, p) PROVE Typed'
  <2> USE <1>13 DEF UpdatePolicy
  <2> DEFINE v == [ver |-> row[a].pol.ver + 1, val |-> p]
             c == [Call(x, "storePolicy", a) EXCEPT !.pol = v]
  <2>1. v \in Versions
    BY <1>9, RowUpdates DEF Versions
  <2>2. c \in Calls /\ c.app \in Apps
    BY <2>1, <1>3 DEF UserPcs
  <2>3. usr' = [usr EXCEPT ![x] = c]
    OBVIOUS
  <2> HIDE DEF c
  <2> QED
    BY <2>2, <2>3, <1>4, <1>5, <1>9, UserMoves
<1>14. ASSUME StorePolicy(x) PROVE Typed'
  <2> USE <1>14 DEF StorePolicy
  <2>1. usr[x].app \in Apps /\ usr[x].pol \in Versions
    BY <1>10, <1>9 DEF Calls
  <2>2. row' \in [Apps -> Rows]
    BY <2>1, <1>9, RowUpdates
  <2> QED
    BY <2>1, <2>2, <1>5, <1>6, <1>9
<1>15. ASSUME NEW a \in Apps, RemovePolicy(x, a) PROVE Typed'
  <2> USE <1>15 DEF RemovePolicy
  <2>1. row' \in [Apps -> Rows]
    BY <1>1, <1>9, RowUpdates
  <2> QED
    BY <2>1, <1>4, <1>5, <1>6, <1>9
<1>16. ASSUME NEW a \in Apps, UpdateIdentity(x, a) PROVE Typed'
  <2> USE <1>16 DEF UpdateIdentity
  <2> DEFINE c == [Call(x, "storeManifest", a) EXCEPT !.ser = serial]
  <2>1. row' \in [Apps -> Rows]
    BY <1>9, RowUpdates
  <2>2. c \in Calls /\ c.app \in Apps
    BY <1>9, <1>3 DEF UserPcs
  <2>3. usr' = [usr EXCEPT ![x] = c]
    OBVIOUS
  <2> HIDE DEF c
  <2> QED
    BY <2>1, <2>2, <2>3, <1>4, <1>5, <1>9, UserMoves
<1>17. ASSUME StoreManifest(x) PROVE Typed'
  <2> USE <1>17 DEF StoreManifest
  <2>1. usr[x].app \in Apps /\ usr[x].ser \in Nat
    BY <1>10, <1>9 DEF Calls
  <2>2. row' \in [Apps -> Rows]
    BY <2>1, <1>9, RowUpdates
  <2> QED
    BY <2>1, <2>2, <1>5, <1>6, <1>9
<1>18. ASSUME NEW a \in Apps, ResetApplication(x, a) PROVE Typed'
  <2> USE <1>18 DEF ResetApplication
  <2>1. row' \in [Apps -> Rows]
    BY <1>9, RowUpdates DEF SyncStates
  <2>2. Call(x, "notify", a) \in Calls /\ Call(x, "notify", a).app \in Apps
    BY <1>3 DEF UserPcs
  <2> QED
    BY <2>1, <2>2, <1>4, <1>5, <1>9, UserMoves
<1>19. ASSUME NEW a \in Apps, ResetUnmanaged(x, a) PROVE Typed'
  <2> USE <1>19 DEF ResetUnmanaged
  <2> QED
    BY <1>0, <1>4, <1>5, <1>9 DEF WorkInv
<1>20. ASSUME NEW a \in Apps, RemoveApplication(x, a) PROVE Typed'
  <2> USE <1>20 DEF RemoveApplication
  <2>1. row' \in [Apps -> Rows]
    BY <1>2, <1>9, RowUpdates
  <2> QED
    BY <2>1, <1>4, <1>5, <1>9 DEF WorkInv
<1>21. ASSUME NEW a \in Apps, Claim(x, a) PROVE Typed'
  <2> USE <1>21 DEF Claim
  <2> DEFINE c == [Call(x, "claimed", a) EXCEPT !.ser = serial]
  <2>1. dev' \in [Apps -> Devices]
    <3>1. /\ dev[a] \in Devices
          /\ dev' = [dev EXCEPT ![a] = [dev[a] EXCEPT !.state = "CLAIMED", !.id = serial]]
      BY <1>9
    <3>2. [dev[a] EXCEPT !.state = "CLAIMED", !.id = serial] \in Devices
      BY <1>9, <3>1 DEF Devices, AppStates
    <3> QED
      BY <1>9, <3>1, <3>2
  <2>2. c \in Calls /\ c.app \in Apps
    BY <1>9, <1>3 DEF UserPcs
  <2>3. usr' = [usr EXCEPT ![x] = c]
    OBVIOUS
  <2> HIDE DEF c
  <2> QED
    BY <2>1, <2>2, <2>3, <1>4, <1>5, <1>9, UserMoves
<1>22. ASSUME FinishClaiming(x) PROVE Typed'
  <2> USE <1>22 DEF FinishClaiming
  <2>1. usr[x].app \in Apps /\ usr[x].ser \in Nat
    BY <1>10, <1>9 DEF Calls
  <2>2. row' \in [Apps -> Rows]
    BY <2>1, <1>2, <1>9, RowUpdates
  <2> QED
    BY <2>2, <1>5, <1>7, <1>8, <1>9 DEF UserPcs
<1>23. ASSUME Unclaim(x) PROVE Typed'
  <2> USE <1>23 DEF Unclaim
  <2>1. usr[x].app \in Apps
    BY <1>10
  <2>2. Unclaimed(dev[usr[x].app]) \in Devices
    BY <2>1, <1>9, UnclaimedType
  <2>3. dev' \in [Apps -> Devices]
    BY <2>1, <2>2, <1>9
  <2> QED
    BY <2>3, <1>5, <1>7, <1>9
<1>24. ASSUME ApplicationUpdated(x) PROVE Typed'
  <2> USE <1>24 DEF ApplicationUpdated
  <2> QED
    BY <1>0, <1>5, <1>7, <1>8, <1>9 DEF UserPcs
<1>25. ASSUME MarkPending(x) PROVE Typed'
  <2> USE <1>25 DEF MarkPending
  <2>1. usr[x].app \in Apps
    BY <1>10
  <2>2. row' \in [Apps -> Rows]
    <3> DEFINE a == usr[x].app
               p == row[a].pol
               v == IF usr[x].bump THEN Bumped(p) ELSE p
    <3>1. p \in Versions
      BY <2>1, <1>9, RowUpdates
    <3>2. v \in Versions
      BY <3>1 DEF Versions, Bumped
    <3> HIDE DEF v
    <3>3. [row EXCEPT ![a].sync = "PENDING"] \in [Apps -> Rows]
      BY <2>1, <1>9, RowUpdates DEF SyncStates
    <3>4. [[row EXCEPT ![a].sync = "PENDING"] EXCEPT ![a].pol = v] \in [Apps -> Rows]
      BY <3>2, <3>3, <2>1, RowUpdates
    <3>5. \/ row' = row
          \/ row' = [[row EXCEPT ![a].sync = "PENDING"] EXCEPT ![a].pol = v]
      BY DEF v
    <3> QED
      BY <3>4, <3>5, <1>9
  <2>3. Goto(x, "notify") \/ usr' = [usr EXCEPT ![x] = Call(x, "notify", usr[x].app)]
    OBVIOUS
  <2>4. /\ usr' \in [Users -> Calls]
        /\ \A y \in Users : usr'[y].pc # "idle" => usr'[y].app \in Apps
    BY <2>1, <2>3, <1>3, <1>8, UserMoves DEF UserPcs
  <2> QED
    BY <2>2, <2>4, <1>0, <1>5, <1>9
<1>26. ASSUME NotifyPending(x) PROVE Typed'
  <2> USE <1>26 DEF NotifyPending
  <2> DEFINE a == usr[x].app
             e == [app |-> a, bus |-> heard[a].bus, state |-> heard[a].state, old |-> "none"]
  <2>1. a \in Apps
    BY <1>10
  <2>2. e \in Events
    BY <2>1 DEF TypeOK, Infos, Events
  <2>3. queue' \in Seq(Events)
    BY <2>2, <1>9
  <2> QED
    BY <2>3, <1>5, <1>9, <1>28
<1> QED
  BY <1>11, <1>12, <1>13, <1>14, <1>15, <1>16, <1>17, <1>18, <1>19, <1>20,
     <1>21, <1>22, <1>23, <1>24, <1>25, <1>26, <1>29, <1>30, <1>31 DEF User

------------------------------------------------------------------------------

LEMMA JobTypes ==
  /\ NoJob \in Jobs
  /\ NoJob.pc = "idle"
  /\ \A a \in Apps, n \in Nat, s \in AppStates :
       Job(a, n, s) \in Jobs /\ Job(a, n, s).app = a /\ Job(a, n, s).tx = 0
                           /\ Job(a, n, s).pc = "start"
<1>1. DefaultPolicy \in Versions /\ {} \in SUBSET Certs
  BY DEF DefaultPolicy, Versions
<1> HIDE DEF DefaultPolicy
<1>2. NoJob \in Jobs /\ NoJob.pc = "idle" /\ NoJob.tx = 0
  BY <1>1 DEF NoJob, Jobs, UpdaterPcs, AppStates, SyncStates
<1>3. ASSUME NEW a \in Apps, NEW n \in Nat, NEW s \in AppStates
      PROVE  Job(a, n, s) \in Jobs
  BY <1>2 DEF Job, Jobs, UpdaterPcs
<1>4. \A a, n, s : Job(a, n, s).app = a /\ Job(a, n, s).tx = 0 /\ Job(a, n, s).pc = "start"
  BY DEF Job, NoJob
<1> QED
  BY <1>2, <1>3, <1>4

\* The job that goes on to the report.
LEMMA ReportType ==
  ASSUME NEW j \in Jobs, j.app \in Apps, NEW s \in SyncStates \cup {"RESET"}
  PROVE  /\ Report(j, s) \in Jobs
         /\ Report(j, s).pc = "report"
         /\ Report(j, s).app = j.app
         /\ Report(j, s).sync = s
         /\ Report(j, s).tx = j.tx
<1> DEFINE k == Job(j.app, j.bus, j.state)
<1>1. j.bus \in Nat /\ j.state \in AppStates /\ j.tx \in Nat
  BY DEF Jobs
<1>2. k \in Jobs /\ k.app = j.app
  BY <1>1, JobTypes
<1> HIDE DEF k
<1>3. [k EXCEPT !.pc = "report", !.sync = s, !.tx = j.tx] \in Jobs
  BY <1>1, <1>2 DEF Jobs, UpdaterPcs
<1>4. Report(j, s) = [k EXCEPT !.pc = "report", !.sync = s, !.tx = j.tx]
  BY DEF Report, k
<1> QED
  BY <1>2, <1>3, <1>4 DEF Jobs

\* What a job is about after the head of the loop.
Heads(r, a) ==
  \/ r = NoJob
  \/ /\ r.app = a
     /\ r.tx = counter
     /\ \/ r.pc = "report" /\ r.sync = "RESET"
        \/ r.pc = "connect" /\ r.sync = "WILL_RESET"
        \/ r.pc = "readMemberships" /\ r.sync = row[a].sync /\ r.sync # "WILL_RESET"

LEMMA NewRoundType ==
  ASSUME Typed, NEW j \in Jobs, j.app \in Apps
  PROVE  NewRound(j) \in Jobs /\ Heads(NewRound(j), j.app)
<1> DEFINE k == [j EXCEPT !.sync = row[j.app].sync, !.tx = counter]
<1>1. row[j.app].sync \in SyncStates /\ counter \in Nat
  BY DEF Typed, TypeOK, Rows
<1>2. /\ k \in Jobs
      /\ k.app = j.app /\ k.sync = row[j.app].sync /\ k.tx = counter
      /\ k.state \in AppStates
  BY <1>1 DEF Jobs
<1> HIDE DEF k
<1>3. NewRound(j) = Round(k)
  BY DEF NewRound, k
<1>4. CASE k.sync = "WILL_RESET" /\ k.state = "CLAIMABLE"
  <2>1. Round(k) = Report(k, "RESET")
    BY <1>4 DEF Round
  <2> QED
    BY <1>2, <1>3, <2>1, ReportType DEF Heads
<1>5. CASE k.sync = "WILL_RESET" /\ k.state # "CLAIMABLE"
  <2>1. Round(k) = [k EXCEPT !.pc = "connect"]
    BY <1>5 DEF Round
  <2>2. [k EXCEPT !.pc = "connect"] \in Jobs
    BY <1>2 DEF Jobs, UpdaterPcs
  <2> QED
    BY <1>2, <1>3, <1>5, <2>1, <2>2 DEF Heads, Jobs
<1>6. CASE k.sync # "WILL_RESET" /\ k.state = "CLAIMABLE"
  <2>1. Round(k) = NoJob
    BY <1>6 DEF Round
  <2> QED
    BY <1>3, <2>1, JobTypes DEF Heads
<1>7. CASE k.sync # "WILL_RESET" /\ k.state # "CLAIMABLE"
  <2>1. Round(k) = [k EXCEPT !.pc = "readMemberships"]
    BY <1>7 DEF Round
  <2>2. [k EXCEPT !.pc = "readMemberships"] \in Jobs
    BY <1>2 DEF Jobs, UpdaterPcs
  <2> QED
    BY <1>2, <1>3, <1>7, <2>1, <2>2 DEF Heads, Jobs
<1> QED
  BY <1>4, <1>5, <1>6, <1>7

LEMMA UpdaterMoves ==
  ASSUME Typed, NEW u \in Updaters, NEW r \in Jobs, r.pc # "idle" => r.app \in Apps,
         Step(u, r)
  PROVE  /\ upd' \in [Updaters -> Jobs]
         /\ \A v \in Updaters : upd'[v].pc # "idle" => upd'[v].app \in Apps
BY DEF Typed, TypeOK, WorkInv, Step

LEMMA RemoteCallTyped ==
  ASSUME Typed, NEW u \in Updaters, upd[u].pc # "idle", NEW d \in Devices,
         NEW r \in Jobs, r.app \in Apps, RemoteCall(u, d, r)
  PROVE  Typed'
<1> DEFINE j == upd[u]
<1>1. j \in Jobs /\ j.app \in Apps /\ j.sync \in SyncStates \cup {"RESET"}
  BY DEF Typed, TypeOK, WorkInv, Jobs
<1>2. Report(j, j.sync) \in Jobs /\ Report(j, j.sync).app \in Apps
  BY <1>1, ReportType
<1>3. Step(u, r) \/ Step(u, Report(j, j.sync))
  BY DEF RemoteCall, GiveUp
<1>4. /\ upd' \in [Updaters -> Jobs]
      /\ \A v \in Updaters : upd'[v].pc # "idle" => upd'[v].app \in Apps
  BY <1>2, <1>3, UpdaterMoves
<1>5. dev' = dev \/ dev' = [dev EXCEPT ![j.app] = d]
  BY DEF RemoteCall
<1>6. dev' \in [Apps -> Devices]
  BY <1>5 DEF Typed, TypeOK
<1>7. pom' \in Updaters \cup {Nobody}
  BY DEF RemoteCall, GiveUp, Typed, TypeOK
<1>8. spent' \in Bounds
  BY DEF RemoteCall, MayFail, Typed, TypeOK, Bounds
<1> QED
  BY <1>4, <1>6, <1>7, <1>8 DEF RemoteCall, Typed, TypeOK, WorkInv

LEMMA UpdaterTyped ==
  ASSUME Typed, NEW u \in Updaters, Updater(u)
  PROVE  Typed'
<1> USE AppSyncAssumption
<1> DEFINE j == upd[u]
           d == dev[j.app]
<1>0. u \in Threads
  BY DEF Threads
<1>1. /\ j \in Jobs
      /\ j.pc # "idle" => j.app \in Apps
      /\ j.sync \in SyncStates \cup {"RESET"}
  BY DEF Typed, TypeOK, WorkInv, Jobs
<1>2. j.pc # "idle" => d \in Devices
  BY <1>1 DEF Typed, TypeOK
<1>3. j.pc # "idle" => row[j.app] \in Rows
  BY <1>1 DEF Typed, TypeOK
<1>4. ASSUME NEW r \in Jobs, r.pc # "idle" => r.app \in Apps, Step(u, r),
             row' \in [Apps -> Rows], leak' \in Threads \cup {Nobody},
             lock' \in Threads \cup {Nobody}, pom' \in Updaters \cup {Nobody},
             queue' \in Seq(Events), spent' \in Bounds,
             UNCHANGED <<serial, counter, usr, heard, dev>>
      PROVE  Typed'
  BY <1>4, UpdaterMoves DEF Typed, TypeOK, WorkInv
<1>5. /\ row \in [Apps -> Rows] /\ leak \in Threads \cup {Nobody}
      /\ lock \in Threads \cup {Nobody} /\ pom \in Updaters \cup {Nobody}
      /\ queue \in Seq(Events) /\ spent \in Bounds
  BY DEF Typed, TypeOK
<1>6. NoJob \in Jobs /\ NoJob.pc = "idle"
  BY JobTypes
<1> HIDE DEF j, d
<1>7. ASSUME j.pc # "idle", NEW r, r = NewRound(j)
      PROVE  r \in Jobs /\ (r.pc # "idle" => r.app \in Apps)
  BY <1>1, <1>6, <1>7, NewRoundType DEF Heads
<1>8. ASSUME j.pc # "idle", NEW s \in SyncStates \cup {"RESET"}
      PROVE  Report(j, s) \in Jobs /\ Report(j, s).app \in Apps
  BY <1>1, <1>8, ReportType
<1>9. ASSUME MayFail PROVE spent' \in Bounds
  BY <1>9, <1>5 DEF MayFail, Bounds
<1>10. ASSUME u = Queue, TakeEvent PROVE Typed'
  <2> USE <1>10 DEF TakeEvent
  <2> DEFINE e == Head(queue)
  <2>1. e \in Events /\ queue' \in Seq(Events)
    BY <1>5
  <2> HIDE DEF e
  <2>2. Job(e.app, e.bus, e.state) \in Jobs /\ Job(e.app, e.bus, e.state).app \in Apps
    BY <2>1, JobTypes DEF Events
  <2>3. Step(u, Job(e.app, e.bus, e.state)) \/ Step(u, NoJob)
    BY DEF e
  <2> QED
    BY <2>1, <2>2, <2>3, <1>4, <1>5, <1>6
<1>11. ASSUME NEW a \in Apps, DirectCall(u, a) PROVE Typed'
  <2> USE <1>11 DEF DirectCall
  <2> DEFINE r == Job(a, heard[a].bus, heard[a].state)
  <2>1. heard[a].bus \in Nat /\ heard[a].state \in AppStates
    BY DEF Typed, TypeOK, Infos
  <2>2. r \in Jobs /\ r.app \in Apps
    BY <2>1, JobTypes
  <2>3. spent' \in Bounds
    BY <1>5 DEF Bounds
  <2> HIDE DEF r
  <2>4. Step(u, r)
    BY DEF r
  <2> QED
    BY <2>2, <2>3, <2>4, <1>4, <1>5
<1>12. ASSUME StartUpdates(u) PROVE Typed'
  <2> USE <1>12 DEF StartUpdates
  <2>1. Step(u, NewRound(j)) \/ Step(u, NoJob)
    BY DEF j
  <2>2. j.pc # "idle"
    BY DEF j
  <2> QED
    BY <2>1, <2>2, <1>4, <1>5, <1>6, <1>7
<1>13. ASSUME ReadMemberships(u) PROVE Typed'
  <2> USE <1>13 DEF ReadMemberships
  <2> DEFINE r == [j EXCEPT !.pc = "readIdentity", !.mem = row[j.app].mem]
  <2>1. j.pc # "idle" /\ Step(u, r)
    BY DEF j
  <2>2. row[j.app].mem \in SUBSET Certs
    BY <2>1, <1>1, <1>5, RowUpdates
  <2>3. r \in Jobs /\ r.app \in Apps
    BY <2>1, <2>2, <1>1 DEF Jobs, UpdaterPcs
  <2> QED
    BY <2>1, <2>3, <1>4, <1>5
<1>14. ASSUME ReadIdentity(u) PROVE Typed'
  <2> USE <1>14 DEF ReadIdentity
  <2> DEFINE r == [j EXCEPT !.pc = "readManifest", !.id = row[j.app].id]
  <2>1. j.pc # "idle" /\ (Step(u, r) \/ Step(u, NoJob))
    BY DEF j
  <2>2. row[j.app].id \in Nat
    BY <2>1, <1>3 DEF Rows
  <2>3. r \in Jobs /\ r.app \in Apps
    BY <2>1, <2>2, <1>1 DEF Jobs, UpdaterPcs
  <2> QED
    BY <2>1, <2>3, <1>4, <1>5, <1>6
<1>15. ASSUME ReadManifest(u) PROVE Typed'
  <2> USE <1>15 DEF ReadManifest
  <2> DEFINE r == [j EXCEPT !.pc = "readPolicy", !.mf = row[j.app].mf]
  <2>1. j.pc # "idle" /\ (Step(u, r) \/ Step(u, NoJob))
    BY DEF j
  <2>2. row[j.app].mf \in Nat
    BY <2>1, <1>3 DEF Rows
  <2>3. r \in Jobs /\ r.app \in Apps
    BY <2>1, <2>2, <1>1 DEF Jobs, UpdaterPcs
  <2> QED
    BY <2>1, <2>3, <1>4, <1>5, <1>6
<1>16. ASSUME ReadPolicy(u) PROVE Typed'
  <2> USE <1>16 DEF ReadPolicy
  <2> DEFINE r == [j EXCEPT !.pc = "connect", !.pol = row[j.app].pol]
  <2>1. j.pc # "idle" /\ Step(u, r)
    BY DEF j
  <2>2. row[j.app].pol \in Versions
    BY <2>1, <1>1, <1>5, RowUpdates
  <2>3. r \in Jobs /\ r.app \in Apps
    BY <2>1, <2>2, <1>1 DEF Jobs, UpdaterPcs
  <2> QED
    BY <2>1, <2>3, <1>4, <1>5
<1>17. ASSUME Connect(u) PROVE Typed'
  <2> USE <1>17 DEF Connect
  <2> DEFINE pc == IF j.sync = "WILL_RESET" THEN "reset" ELSE "memberships"
             r == [j EXCEPT !.pc = pc]
  <2>1. j.pc # "idle" /\ Step(u, r)
    BY DEF j
  <2>2. r \in Jobs /\ r.app \in Apps
    BY <2>1, <1>1 DEF Jobs, UpdaterPcs
  <2> HIDE DEF r
  <2> QED
    BY <2>1, <2>2, <1>4, <1>5
<1>18. ASSUME ConnectFails(u) PROVE Typed'
  <2> USE <1>18 DEF ConnectFails
  <2>1. /\ j.pc # "idle"
        /\ Step(u, Report(j, j.sync)) \/ Step(u, NoJob)
    BY DEF j
  <2>2. spent' \in Bounds
    BY <1>5, <1>9
  <2> QED
    BY <2>1, <2>2, <1>1, <1>4, <1>5, <1>6, <1>8
<1>19. ASSUME InstallMissingMemberships(u) PROVE Typed'
  <2>1. PICK c \in j.mem \ d.mem : RemoteCall(u, [d EXCEPT !.mem = @ \cup {c}], j)
    BY <1>19 DEF InstallMissingMemberships, j, d
  <2>2. j.pc # "idle"
    BY <1>19 DEF InstallMissingMemberships, j
  <2>3. d.mem \cup {c} \in SUBSET Certs
    BY <2>2, <1>1, <1>2 DEF Jobs, Devices
  <2>4. [d EXCEPT !.mem = @ \cup {c}] \in Devices
    BY <2>2, <2>3, <1>2 DEF Devices
  <2> QED
    BY <2>1, <2>2, <2>4, <1>1, RemoteCallTyped DEF j
<1>20. ASSUME RemoveRedundantMemberships(u) PROVE Typed'
  <2>1. PICK c \in d.mem \ j.mem : RemoteCall(u, [d EXCEPT !.mem = @ \ {c}], j)
    BY <1>20 DEF RemoveRedundantMemberships, j, d
  <2>2. j.pc # "idle"
    BY <1>20 DEF RemoveRedundantMemberships, j
  <2>3. d.mem \ {c} \in SUBSET Certs
    BY <2>2, <1>2 DEF Devices
  <2>4. [d EXCEPT !.mem = @ \ {c}] \in Devices
    BY <2>2, <2>3, <1>2 DEF Devices
  <2> QED
    BY <2>1, <2>2, <2>4, <1>1, RemoteCallTyped DEF j
<1>21. ASSUME MembershipsDone(u) PROVE Typed'
  <2> DEFINE r == [j EXCEPT !.pc = "identity"]
  <2>1. j.pc # "idle" /\ RemoteCall(u, d, r)
    BY <1>21 DEF MembershipsDone, j, d
  <2>2. r \in Jobs /\ r.app \in Apps
    BY <2>1, <1>1 DEF Jobs, UpdaterPcs
  <2> QED
    BY <2>1, <2>2, <1>2, RemoteCallTyped DEF j
<1>22. ASSUME Refused(u), j.pc # "idle" PROVE Typed'
  <2> USE <1>22 DEF Refused
  <2>1. Step(u, Report(j, j.sync)) /\ pom' \in Updaters \cup {Nobody}
    BY DEF GiveUp, j
  <2> QED
    BY <2>1, <1>1, <1>4, <1>5, <1>8
<1>23. ASSUME ApplyIdentity(u) PROVE Typed'
  <2> DEFINE r == [j EXCEPT !.pc = "policy"]
             e == [d EXCEPT !.id = j.id, !.state = "CLAIMED"]
  <2>1. j.pc # "idle" /\ (RemoteCall(u, d, r) \/ RemoteCall(u, e, r) \/ Refused(u))
    BY <1>23 DEF ApplyIdentity, j, d
  <2>2. r \in Jobs /\ r.app \in Apps
    BY <2>1, <1>1 DEF Jobs, UpdaterPcs
  <2>3. e \in Devices
    BY <2>1, <1>1, <1>2 DEF Jobs, Devices, AppStates
  <2> QED
    BY <2>1, <2>2, <2>3, <1>2, <1>22, RemoteCallTyped DEF j
<1>24. ASSUME ApplyPolicy(u) PROVE Typed'
  <2> DEFINE e == [d EXCEPT !.pol = j.pol]
  <2>1. /\ j.pc # "idle"
        /\ \/ RemoteCall(u, d, Report(j, "OK"))
           \/ RemoteCall(u, e, Report(j, "OK"))
           \/ Refused(u)
    BY <1>24 DEF ApplyPolicy, j, d
  <2>2. e \in Devices
    BY <2>1, <1>1, <1>2 DEF Jobs, Devices
  <2>3. "OK" \in SyncStates
    BY DEF SyncStates
  <2> QED
    BY <2>1, <2>2, <2>3, <1>2, <1>8, <1>22, RemoteCallTyped DEF j
<1>25. ASSUME ResetRemote(u) PROVE Typed'
  <2>1. j.pc # "idle" /\ RemoteCall(u, Unclaimed(d), Report(j, "RESET"))
    BY <1>25 DEF ResetRemote, j, d
  <2> QED
    BY <2>1, <1>2, <1>8, UnclaimedType, RemoteCallTyped DEF j
<1>26. ASSUME CompletedReset(u) PROVE Typed'
  <2> USE <1>26 DEF CompletedReset
  <2>1. /\ j.pc # "idle" /\ Step(u, NoJob)
        /\ row' = [row EXCEPT ![j.app] = NoRow]
    BY DEF j
  <2>2. NoRow \in Rows
    BY DEF NoRow, Rows, SyncStates, DefaultPolicy, Versions
  <2>3. row' \in [Apps -> Rows]
    BY <2>1, <2>2, <1>1, <1>5
  <2> QED
    BY <2>1, <2>3, <1>4, <1>5, <1>6
<1>27. ASSUME CompletedRestart(u) PROVE Typed'
  <2> USE <1>27 DEF CompletedRestart
  <2>1. j.pc # "idle" /\ Step(u, NewRound(j))
    BY DEF j
  <2> QED
    BY <2>1, <1>4, <1>5, <1>7
<1>28. ASSUME CompletedOK(u) PROVE Typed'
  <2> USE <1>28 DEF CompletedOK
  <2> DEFINE r == [j EXCEPT !.pc = "persist"]
  <2>1. j.pc # "idle" /\ Step(u, r)
    BY DEF j
  <2>2. r \in Jobs /\ r.app \in Apps
    BY <2>1, <1>1 DEF Jobs, UpdaterPcs
  <2> QED
    BY <2>1, <2>2, <1>0, <1>4, <1>5
<1>29. ASSUME CompletedNothing(u) PROVE Typed'
  <2> USE <1>29 DEF CompletedNothing
  <2> QED
    BY <1>4, <1>5, <1>6
<1>30. ASSUME Persist(u) PROVE Typed'
  <2> USE <1>30 DEF Persist
  <2>1. /\ j.pc # "idle" /\ Step(u, NoJob)
        /\ row' = [row EXCEPT ![j.app].sync = "OK"] \/ row' = row
        /\ leak' \in Threads \cup {Nobody}
    BY <1>0, <1>5 DEF j
  <2>2. j.app \in Apps /\ "OK" \in SyncStates
    BY <2>1, <1>1 DEF SyncStates
  <2>3. [row EXCEPT ![j.app].sync = "OK"] \in [Apps -> Rows]
    BY <2>2, <1>5, RowUpdates
  <2>4. row' \in [Apps -> Rows]
    BY <2>1, <2>3, <1>5
  <2> QED
    BY <2>1, <2>4, <1>4, <1>5, <1>6
<1> QED
  BY <1>10, <1>11, <1>12, <1>13, <1>14, <1>15, <1>16, <1>17, <1>18, <1>19,
     <1>20, <1>21, <1>23, <1>24, <1>25, <1>26, <1>27, <1>28, <1>29, <1>30
     DEF Updater

LEMMA NextTyped ==
  ASSUME Typed, [Next]_vars
  PROVE  Typed'
<1>1. ASSUME NEW a \in Apps, State(a) PROVE Typed'
  <2> USE <1>1 DEF State, Typed
  <2> DEFINE d == dev[a]
             e == [app |-> a, bus |-> d.bus, state |-> d.state,
                   old |-> IF heard[a].bus = d.bus THEN heard[a].state ELSE "none"]
  <2>1. d.bus \in Nat /\ d.state \in AppStates /\ heard[a].state \in AppStates
    BY DEF TypeOK, Devices, Infos
  <2>2. e \in Events
    BY <2>1 DEF Events
  <2> HIDE DEF e
  <2>3. queue' \in Seq(Events)
    BY <2>2 DEF TypeOK, e
  <2>4. heard' \in [Apps -> Infos]
    BY <2>1 DEF TypeOK, Infos
  <2> QED
    BY <2>3, <2>4 DEF TypeOK, WorkInv
<1>2. ASSUME NEW a \in Apps, AppStops(a) \/ AppNeedsUpdate(a) PROVE Typed'
  <2>1. spent' \in Bounds
    <3>1. spent \in Bounds
      BY DEF Typed, TypeOK
    <3>2. spent' = [spent EXCEPT !.events = @ + 1]
      BY <1>2 DEF AppStops, AppNeedsUpdate, AppEvent
    <3> QED
      BY <3>1, <3>2 DEF Bounds
  <2>2. [dev[a] EXCEPT !.up = FALSE] \in Devices /\ [dev[a] EXCEPT !.state = "NEED_UPDATE"] \in Devices
    BY DEF Typed, TypeOK, Devices, AppStates
  <2>3. dev' \in [Apps -> Devices]
    BY <1>2, <2>2 DEF AppStops, AppNeedsUpdate, Typed, TypeOK
  <2> QED
    BY <1>2, <2>1, <2>3 DEF AppStops, AppNeedsUpdate, AppEvent, Typed, TypeOK, WorkInv
<1>3. ASSUME NEW a \in Apps, AppStarts(a) PROVE Typed'
  <2>1. dev' \in [Apps -> Devices]
    BY <1>3 DEF AppStarts, Typed, TypeOK, Devices
  <2> QED
    BY <1>3, <2>1 DEF AppStarts, Typed, TypeOK, WorkInv
<1>4. ASSUME Crash PROVE Typed'
  <2> USE <1>4 DEF Crash
  <2>1. NoCall \in Calls /\ NoCall.pc = "idle"
    BY DEF NoCall, Calls, UserPcs, DefaultPolicy, Versions
  <2>2. heard' \in [Apps -> Infos]
    BY DEF Infos, AppStates
  <2>3. spent' = [spent EXCEPT !.crashes = @ + 1]
    OBVIOUS
  <2> HIDE <1>4 DEF Crash
  <2>4. spent \in Bounds
    BY DEF Typed, TypeOK
  <2>5. spent' \in Bounds
    BY <2>3, <2>4 DEF Bounds
  <2> USE <1>4 DEF Crash
  <2>6. queue' \in Seq(Events)
    OBVIOUS
  <2> QED
    BY <2>1, <2>2, <2>5, <2>6, JobTypes DEF Typed, TypeOK, WorkInv
<1>5. ASSUME UNCHANGED vars PROVE Typed'
  BY <1>5 DEF vars, Typed, TypeOK, WorkInv
<1> QED
  BY <1>1, <1>2, <1>3, <1>4, <1>5, UserTyped, UpdaterTyped DEF Next

\* Every variable of the synchronisation has its type in every reachable state.
THEOREM TypeCorrect == Spec => []TypeOK
<1>1. Init => Typed
  BY InitTyped
<1>2. Typed /\ [Next]_vars => Typed'
  BY NextTyped
<1>3. Typed => TypeOK
  BY DEF Typed
<1> QED
  BY <1>1, <1>2, <1>3, PTL DEF Spec

------------------------------------------------------------------------------
(* A request to reset an application is kept.  StoreApplication overwrites    *)
(* the state of an application in two places.  In both, updateLock is held    *)
(* since the state was seen to be another one.  For the second, this follows  *)
(* from the counter: an updater that was told another state before the        *)
(* request has an older value of it.                                          *)

Requested(a) == row[a].managed /\ row[a].sync = "WILL_RESET"

Updating ==
  {"readMemberships", "readIdentity", "readManifest", "readPolicy",
   "memberships", "identity", "policy"}

UserInv(x) ==
  usr[x].pc = "markPending" => lock = x /\ ~Requested(usr[x].app)

UpdaterInv(u) ==
  LET j == upd[u] IN
  /\ j.tx <= counter
  /\ j.pc \in Updating => j.sync \in {"OK", "PENDING"}
  /\ j.pc = "connect" => j.sync # "RESET"
  /\ j.pc = "persist" => lock = u /\ ~Requested(j.app)
  /\ j.pc \notin {"idle", "start"} /\ j.sync \in {"OK", "PENDING"} =>
       (Requested(j.app) => j.tx < counter)

KeptInv ==
  /\ \A x \in Users : UserInv(x)
  /\ \A u \in Updaters : UpdaterInv(u)

IInv == Typed /\ KeptInv

\* No application becomes WILL_RESET, and one that is stays so or is removed.
NoRequest ==
  \A a \in Apps :
    /\ Requested(a)' => Requested(a)
    /\ Requested(a) /\ row'[a].managed => Requested(a)'

\* Threads other than t do not notice a step of t.
LEMMA UserFrame ==
  ASSUME Typed, NEW y \in Users, UserInv(y), usr'[y] = usr[y],
         \A a \in Apps : Requested(a)' => Requested(a), lock = y => lock' = y
  PROVE  UserInv(y)'
BY DEF UserInv, Typed, WorkInv

LEMMA UpdaterFrame ==
  ASSUME Typed, NEW v \in Updaters, UpdaterInv(v), upd'[v] = upd[v],
         \A a \in Apps : Requested(a)' => Requested(a), lock = v => lock' = v,
         counter' \in Nat, counter <= counter'
  PROVE  UpdaterInv(v)'
<1>1. upd[v].tx \in Nat /\ counter \in Nat
  BY DEF Typed, TypeOK, Jobs
<1>2. upd[v].pc \in Updating \cup {"connect", "persist"} \/ upd[v].pc \notin {"idle", "start"}
      => upd[v].app \in Apps
  BY DEF Typed, WorkInv, Updating
<1> QED
  BY <1>1, <1>2 DEF UpdaterInv

\* The steps of the UI that request a reset, or fail to.
Requesting(x) == ResetHolder(x) \/ \E a \in Apps : ResetApplication(x, a)

\* The other steps of the UI.
LEMMA UserKeeps ==
  ASSUME Typed, NEW x \in Users, UserInv(x), User(x),
         ~Requesting(x)
  PROVE  /\ NoRequest
         /\ counter <= counter' /\ upd' = upd
         /\ \A t \in Threads \ {x} : lock = t => lock' = t
         /\ \A y \in Users \ {x} : usr'[y] = usr[y]
         /\ UserInv(x)'
<1> DEFINE Goal == /\ NoRequest
                   /\ counter <= counter' /\ upd' = upd
                   /\ \A t \in Threads \ {x} : lock = t => lock' = t
                   /\ \A y \in Users \ {x} : usr'[y] = usr[y]
                   /\ UserInv(x)'
<1>1. /\ row \in [Apps -> Rows] /\ usr \in [Users -> Calls] /\ counter \in Nat
      /\ usr[x].pc # "idle" => usr[x].app \in Apps
      /\ x # Nobody
  BY AppSyncAssumption DEF Typed, TypeOK, WorkInv
<1> USE DEF NoRequest, Requested, UserInv
<1>3. ASSUME NEW a \in Apps, NEW g \in Groups, InstallMembership(x, a, g) PROVE Goal
  BY <1>3, <1>1 DEF InstallMembership, ThenUpdated, Call, NoCall
<1>4. ASSUME NEW a \in Apps, NEW g \in Groups, RemoveMembership(x, a, g) PROVE Goal
  BY <1>4, <1>1 DEF RemoveMembership, ThenUpdated, Call, NoCall
<1>5. ASSUME NEW a \in Apps, NEW p \in Policies, UpdatePolicy(x, a, p) PROVE Goal
  BY <1>5, <1>1 DEF UpdatePolicy, Call, NoCall
<1>6. ASSUME StorePolicy(x) PROVE Goal
  BY <1>6, <1>1 DEF StorePolicy, ThenUpdated, Call, NoCall
<1>7. ASSUME NEW a \in Apps, RemovePolicy(x, a) PROVE Goal
  BY <1>7, <1>1 DEF RemovePolicy, ThenUpdated, Call, NoCall
<1>8. ASSUME NEW a \in Apps, UpdateIdentity(x, a) PROVE Goal
  BY <1>8, <1>1 DEF UpdateIdentity, Call, NoCall
<1>9. ASSUME StoreManifest(x) PROVE Goal
  BY <1>9, <1>1 DEF StoreManifest, ThenUpdated, Call, NoCall
<1>10. ASSUME NEW a \in Apps, ResetUnmanaged(x, a) PROVE Goal
  BY <1>10, <1>1 DEF ResetUnmanaged, Starts
<1>11. ASSUME NEW a \in Apps, RemoveApplication(x, a) PROVE Goal
  BY <1>11, <1>1 DEF RemoveApplication, Starts, NoRow
<1>12. ASSUME NEW a \in Apps, Claim(x, a) PROVE Goal
  BY <1>12, <1>1 DEF Claim, Call, NoCall
<1>13. ASSUME FinishClaiming(x) PROVE Goal
  <2> USE <1>13 DEF FinishClaiming
  <2>1. usr'[x].pc # "markPending" /\ \A y \in Users \ {x} : usr'[y] = usr[y]
    BY <1>1 DEF Return, Goto, NoCall, Calls
  <2>2. usr[x].app \in Apps /\ NewRow(usr[x].ser).sync = "OK"
    BY <1>1 DEF NewRow, NoRow
  <2>3. NoRequest
    BY <1>1, <2>2
  <2> QED
    BY <1>1, <2>1, <2>3
<1>14. ASSUME Unclaim(x) PROVE Goal
  BY <1>14, <1>1 DEF Unclaim, Return, NoCall
<1>15. ASSUME ApplicationUpdated(x) PROVE Goal
  <2> USE <1>15 DEF ApplicationUpdated
  <2>1. \A y \in Users \ {x} : usr'[y] = usr[y]
    BY <1>1 DEF Return, Goto
  <2>2. NoRequest /\ counter <= counter' /\ upd' = upd
    BY <1>1
  <2>3. \A t \in Threads \ {x} : lock = t => lock' = t
    BY AppSyncAssumption DEF Locked, Threads, Updaters
  <2>4. usr'[x].pc = "markPending" =>
          lock' = x /\ row[usr[x].app].sync = "OK" /\ usr'[x].app = usr[x].app
    BY <1>1 DEF Return, Goto, NoCall, Calls
  <2> QED
    BY <2>1, <2>2, <2>3, <2>4
<1>16. ASSUME MarkPending(x) PROVE Goal
  <2> USE <1>16 DEF MarkPending
  <2>1. \A y \in Users \ {x} : usr'[y] = usr[y]
    BY <1>1 DEF Goto, Call
  <2>2. usr'[x].pc # "markPending"
    <3>1. usr[x] \in Calls /\ Call(x, "notify", usr[x].app).pc = "notify"
      BY <1>1 DEF Call, NoCall
    <3>2. Goto(x, "notify") \/ usr' = [usr EXCEPT ![x] = Call(x, "notify", usr[x].app)]
      OBVIOUS
    <3>3. CASE Goto(x, "notify")
      BY <1>1, <3>1, <3>3 DEF Goto, Calls
    <3> QED
      BY <1>1, <3>1, <3>2, <3>3
  <2>3. usr[x].app \in Apps /\ ~Requested(usr[x].app) /\ lock = x
    BY <1>1
  <2>4. \A a \in Apps : a # usr[x].app => row'[a] = row[a]
    BY <1>1, <2>3
  <2>5. \/ row' = row
        \/ row'[usr[x].app].sync = "PENDING" /\ row[usr[x].app].managed
    BY <1>1, <2>3 DEF Rows
  <2>6. NoRequest
    BY <2>3, <2>4, <2>5
  <2> QED
    BY <1>1, <2>1, <2>2, <2>3, <2>6
<1>17. ASSUME NotifyPending(x) PROVE Goal
  <2> USE <1>17 DEF NotifyPending
  <2>1. \A y \in Users \ {x} : usr'[y] = usr[y]
    BY <1>1 DEF Proceed, Return
  <2>2. CASE Return(x)
    BY <1>1, <2>1, <2>2 DEF Return, NoCall
  <2>3. CASE ~Return(x)
    <3>1. usr[x] \in Calls
      BY <1>1
    <3>2. PICK a \in usr[x].todo :
            usr' = [usr EXCEPT ![x] = [usr[x] EXCEPT !.pc = usr[x].each, !.app = a,
                                                     !.todo = usr[x].todo \ {a}]]
      BY <2>3 DEF Proceed
    <3>3. usr'[x].pc = usr[x].each
      BY <1>1, <3>1, <3>2 DEF Calls
    <3>4. usr[x].each # "markPending"
      BY <3>1 DEF Calls
    <3> QED
      BY <1>1, <2>1, <3>3, <3>4
  <2> QED
    BY <2>2, <2>3
<1>18. ASSUME NEW as, NEW op \in {"updated", "reset"}, ForEach(x, as, op)
      PROVE  usr'[x].pc # "markPending" /\ \A y \in Users \ {x} : usr'[y] = usr[y]
  <2>1. PICK a \in as :
          usr' = [usr EXCEPT ![x] = [Call(x, op, a) EXCEPT
                                       !.bump = TRUE, !.todo = as \ {a}, !.each = op]]
    BY <1>18 DEF ForEach
  <2>2. [Call(x, op, a) EXCEPT !.bump = TRUE, !.todo = as \ {a}, !.each = op].pc = op
    BY DEF Call, NoCall
  <2>3. usr'[x].pc = op
    BY <1>1, <2>1, <2>2
  <2> QED
    BY <1>1, <2>1, <2>3
<1>19. ASSUME NEW g \in Groups, RemoveGroup(x, g) PROVE Goal
  <2> USE <1>19 DEF RemoveGroup
  <2>1. usr'[x].pc # "markPending" /\ \A y \in Users \ {x} : usr'[y] = usr[y]
    BY <1>18
  <2>2. NoRequest
    BY <1>1 DEF Rows
  <2> QED
    BY <1>1, <2>1, <2>2
<1>20. ASSUME NEW as \in SUBSET Apps, RemoveIdentity(x, as) PROVE Goal
  <2> USE <1>20 DEF RemoveIdentity
  <2>1. usr'[x].pc # "markPending" /\ \A y \in Users \ {x} : usr'[y] = usr[y]
    BY <1>18
  <2>2. NoRequest
    BY <1>1 DEF Rows
  <2> QED
    BY <1>1, <2>1, <2>2
<1> QED
  BY <1>3, <1>4, <1>5, <1>6, <1>7, <1>8, <1>9, <1>10, <1>11, <1>12, <1>13,
     <1>14, <1>15, <1>16, <1>17, <1>19, <1>20 DEF User, Requesting

LEMMA NoJobInv ==
  ASSUME Typed, NEW u \in Updaters, upd'[u] = NoJob, counter' = counter
  PROVE  UpdaterInv(u)'
<1>1. NoJob.pc = "idle" /\ NoJob.tx = 0
  BY DEF NoJob
<1>2. counter \in Nat
  BY DEF Typed, TypeOK
<1> QED
  BY <1>1, <1>2 DEF UpdaterInv, Updating

\* A job that goes on with the state that StartUpdates returned, or has reset
\* or updated the application.
LEMMA JobGoesOn ==
  ASSUME Typed, NEW u \in Updaters, UpdaterInv(u),
         upd[u].pc \notin {"idle", "start", "persist"},
         row' = row, counter' = counter,
         NEW r, upd'[u] = r, r.app = upd[u].app, r.tx = upd[u].tx,
         r.pc \notin {"idle", "start", "persist"},
         \/ r.sync = upd[u].sync
         \/ r.sync = "RESET" /\ r.pc = "report"
         \/ r.sync = "OK" /\ upd[u].sync \in {"OK", "PENDING"},
         r.pc \in Updating => r.sync \in {"OK", "PENDING"},
         r.pc = "connect" => r.sync # "RESET"
  PROVE  UpdaterInv(u)'
BY DEF UpdaterInv, Requested

LEMMA NewRoundInv ==
  ASSUME Typed, NEW u \in Updaters, NEW j \in Jobs, j.app \in Apps,
         row' = row, counter' = counter, upd'[u] = NewRound(j)
  PROVE  UpdaterInv(u)'
<1> DEFINE r == NewRound(j)
<1>1. Heads(r, j.app)
  BY NewRoundType
<1>2. counter \in Nat /\ row[j.app].sync \in SyncStates
  BY DEF Typed, TypeOK, Rows
<1> HIDE DEF r
<1>3. upd'[u] = r
  BY DEF r
<1>4. CASE r = NoJob
  BY <1>3, <1>4, NoJobInv
<1>5. CASE r # NoJob
  BY <1>1, <1>2, <1>3, <1>5 DEF Heads, UpdaterInv, Requested, Updating, SyncStates
<1> QED
  BY <1>4, <1>5

LEMMA RemoteCallKeeps ==
  ASSUME Typed, NEW u \in Updaters, UpdaterInv(u),
         upd[u].pc \notin {"idle", "start", "persist"},
         NEW d, NEW r, RemoteCall(u, d, r), r.app = upd[u].app, r.tx = upd[u].tx,
         r.pc \notin {"idle", "start", "persist"},
         \/ r.sync = upd[u].sync
         \/ r.sync = "RESET" /\ r.pc = "report"
         \/ r.sync = "OK" /\ upd[u].sync \in {"OK", "PENDING"},
         r.pc \in Updating => r.sync \in {"OK", "PENDING"},
         r.pc = "connect" => r.sync # "RESET"
  PROVE  UpdaterInv(u)'
<1> DEFINE j == upd[u]
           f == Report(j, j.sync)
<1>1. j \in Jobs /\ j.app \in Apps /\ j.sync \in SyncStates \cup {"RESET"}
  BY DEF Typed, TypeOK, WorkInv, Jobs
<1>2. f.app = j.app /\ f.tx = j.tx /\ f.pc = "report" /\ f.sync = j.sync
  BY <1>1, ReportType
<1>3. upd'[u] = r \/ upd'[u] = f
  BY DEF RemoteCall, GiveUp, Step, Typed, TypeOK
<1>4. row' = row /\ counter' = counter
  BY DEF RemoteCall
<1> HIDE DEF f
<1>5. CASE upd'[u] = r
  BY <1>4, <1>5, JobGoesOn
<1>6. CASE upd'[u] = f
  BY <1>2, <1>4, <1>6, JobGoesOn DEF Updating
<1> QED
  BY <1>3, <1>5, <1>6

\* A step of an updater.
LEMMA UpdaterKeeps ==
  ASSUME Typed, NEW u \in Updaters, UpdaterInv(u), Updater(u)
  PROVE  /\ NoRequest
         /\ counter' = counter /\ usr' = usr
         /\ \A t \in Threads \ {u} : lock = t => lock' = t
         /\ \A v \in Updaters \ {u} : upd'[v] = upd[v]
         /\ UpdaterInv(u)'
<1> DEFINE j == upd[u]
           d == dev[j.app]
           Goal == /\ NoRequest
                   /\ counter' = counter /\ usr' = usr
                   /\ \A t \in Threads \ {u} : lock = t => lock' = t
                   /\ \A v \in Updaters \ {u} : upd'[v] = upd[v]
                   /\ UpdaterInv(u)'
<1>1. /\ j \in Jobs /\ j.tx \in Nat /\ j.sync \in SyncStates \cup {"RESET"}
      /\ j.pc # "idle" => j.app \in Apps
      /\ j.pc \in Updating => j.sync \in {"OK", "PENDING"}
  BY DEF Typed, TypeOK, WorkInv, Jobs, UpdaterInv
<1>2. row \in [Apps -> Rows] /\ counter \in Nat /\ upd \in [Updaters -> Jobs]
  BY DEF Typed, TypeOK
<1>3. ASSUME NEW r, Step(u, r)
      PROVE  upd'[u] = r /\ \A v \in Updaters \ {u} : upd'[v] = upd[v]
  BY <1>2, <1>3 DEF Step
<1>4. ASSUME NEW r, Step(u, r), UNCHANGED <<row, counter, usr, lock>>, UpdaterInv(u)'
      PROVE  Goal
  BY <1>3, <1>4 DEF NoRequest, Requested
<1>5. ASSUME Step(u, NoJob), UNCHANGED <<row, counter, usr, lock>> PROVE Goal
  BY <1>3, <1>4, <1>5, NoJobInv
<1>6. ASSUME j.pc \notin {"idle", "start", "persist"}, UNCHANGED <<row, counter, usr, lock>>,
             NEW r, Step(u, r), r.app = j.app, r.tx = j.tx, r.sync = j.sync,
             r.pc \in Updating \cup {"reset", "report", "connect", "persist"},
             r.pc = "persist" => FALSE,
             r.pc \in Updating => j.sync \in {"OK", "PENDING"},
             r.pc = "connect" => j.sync # "RESET"
      PROVE  Goal
  <2>1. upd'[u] = r
    BY <1>3, <1>6
  <2>2. r.pc \notin {"idle", "start", "persist"}
    BY <1>6 DEF Updating
  <2>3. UpdaterInv(u)'
    BY <1>6, <2>1, <2>2, JobGoesOn
  <2> QED
    BY <1>4, <1>6, <2>3
<1>7. ASSUME Step(u, NewRound(j)), j.pc # "idle", UNCHANGED <<row, counter, usr, lock>> PROVE Goal
  BY <1>1, <1>3, <1>4, <1>7, NewRoundInv
<1>8. ASSUME j.pc \notin {"idle", "start", "persist"},
             NEW e, NEW r, RemoteCall(u, e, r), r.app = j.app, r.tx = j.tx,
             r.pc \in Updating \cup {"report"},
             r.pc \in Updating => r.sync = j.sync /\ j.sync \in {"OK", "PENDING"},
             \/ r.sync = j.sync
             \/ r.sync = "RESET" /\ r.pc = "report"
             \/ r.sync = "OK" /\ j.sync \in {"OK", "PENDING"}
      PROVE  Goal
  <2>1. Step(u, r) \/ Step(u, Report(upd[u], upd[u].sync))
    BY <1>8 DEF RemoteCall, GiveUp
  <2>2. UNCHANGED <<row, counter, usr, lock>>
    BY <1>8 DEF RemoteCall
  <2>3. r.pc \notin {"idle", "start", "persist"} /\ r.pc # "connect"
    BY <1>8 DEF Updating
  <2>4. UpdaterInv(u)'
    BY <1>8, <2>3, RemoteCallKeeps
  <2> QED
    BY <1>4, <2>1, <2>2, <2>4
<1>9. ASSUME j.pc # "idle", NEW s \in SyncStates \cup {"RESET"}
      PROVE  /\ Report(j, s).pc = "report" /\ Report(j, s).app = j.app
             /\ Report(j, s).sync = s /\ Report(j, s).tx = j.tx
  BY <1>1, <1>9, ReportType
<1> HIDE DEF j, d, Goal
<1>10. ASSUME u = Queue, TakeEvent PROVE Goal
  <2> DEFINE e == Head(queue)
             r == Job(e.app, e.bus, e.state)
  <2>1. /\ Step(u, r) \/ Step(u, NoJob)
        /\ UNCHANGED <<row, counter, usr, lock>>
    BY <1>10 DEF TakeEvent
  <2>2. e \in Events
    BY <1>10 DEF TakeEvent, Typed, TypeOK
  <2>3. r.tx = 0 /\ r.pc = "start"
    <3> HIDE DEF e
    <3> QED
      BY <2>2, JobTypes DEF Events
  <2> HIDE DEF r
  <2>4. CASE Step(u, r)
    BY <1>2, <1>3, <1>4, <2>1, <2>3, <2>4 DEF UpdaterInv, Updating
  <2> QED
    BY <1>5, <2>1, <2>4
<1>11. ASSUME NEW a \in Apps, DirectCall(u, a) PROVE Goal
  <2> DEFINE r == Job(a, heard[a].bus, heard[a].state)
  <2>1. r.tx = 0 /\ r.pc = "start"
    BY JobTypes DEF Typed, TypeOK, Infos
  <2> HIDE DEF r
  <2>2. Step(u, r) /\ UNCHANGED <<row, counter, usr, lock>>
    BY <1>11 DEF DirectCall, r
  <2> QED
    BY <1>2, <1>3, <1>4, <2>1, <2>2 DEF UpdaterInv, Updating
<1>12. ASSUME StartUpdates(u) \/ CompletedRestart(u) PROVE Goal
  <2>1. /\ Step(u, NewRound(j)) \/ Step(u, NoJob)
        /\ j.pc # "idle" /\ UNCHANGED <<row, counter, usr, lock>>
    BY <1>12 DEF StartUpdates, CompletedRestart, j
  <2> QED
    BY <1>5, <1>7, <2>1
<1>13. ASSUME ReadMemberships(u) PROVE Goal
  <2> DEFINE r == [j EXCEPT !.pc = "readIdentity", !.mem = row[j.app].mem]
  <2>1. /\ Step(u, r)
        /\ j.pc = "readMemberships" /\ UNCHANGED <<row, counter, usr, lock>>
    BY <1>13 DEF ReadMemberships, j
  <2>2. r.app = j.app /\ r.tx = j.tx /\ r.pc = "readIdentity" /\ r.sync = j.sync
    BY <1>1 DEF Jobs
  <2> HIDE DEF r
  <2> QED
    BY <1>1, <1>5, <1>6, <2>1, <2>2 DEF Updating
<1>14. ASSUME ReadIdentity(u) PROVE Goal
  <2> DEFINE r == [j EXCEPT !.pc = "readManifest", !.id = row[j.app].id]
  <2>1. /\ Step(u, r) \/ Step(u, NoJob)
        /\ j.pc = "readIdentity" /\ UNCHANGED <<row, counter, usr, lock>>
    BY <1>14 DEF ReadIdentity, j
  <2>2. r.app = j.app /\ r.tx = j.tx /\ r.pc = "readManifest" /\ r.sync = j.sync
    BY <1>1 DEF Jobs
  <2> HIDE DEF r
  <2> QED
    BY <1>1, <1>5, <1>6, <2>1, <2>2 DEF Updating
<1>15. ASSUME ReadManifest(u) PROVE Goal
  <2> DEFINE r == [j EXCEPT !.pc = "readPolicy", !.mf = row[j.app].mf]
  <2>1. /\ Step(u, r) \/ Step(u, NoJob)
        /\ j.pc = "readManifest" /\ UNCHANGED <<row, counter, usr, lock>>
    BY <1>15 DEF ReadManifest, j
  <2>2. r.app = j.app /\ r.tx = j.tx /\ r.pc = "readPolicy" /\ r.sync = j.sync
    BY <1>1 DEF Jobs
  <2> HIDE DEF r
  <2> QED
    BY <1>1, <1>5, <1>6, <2>1, <2>2 DEF Updating
<1>16. ASSUME ReadPolicy(u) PROVE Goal
  <2> DEFINE r == [j EXCEPT !.pc = "connect", !.pol = row[j.app].pol]
  <2>1. /\ Step(u, r)
        /\ j.pc = "readPolicy" /\ UNCHANGED <<row, counter, usr, lock>>
    BY <1>16 DEF ReadPolicy, j
  <2>2. r.app = j.app /\ r.tx = j.tx /\ r.pc = "connect" /\ r.sync = j.sync
    BY <1>1 DEF Jobs
  <2> HIDE DEF r
  <2> QED
    BY <1>1, <1>5, <1>6, <2>1, <2>2 DEF Updating
<1>17. ASSUME Connect(u) PROVE Goal
  <2> DEFINE pc == IF j.sync = "WILL_RESET" THEN "reset" ELSE "memberships"
             r == [j EXCEPT !.pc = pc]
  <2>1. Step(u, r) /\ j.pc = "connect" /\ UNCHANGED <<row, counter, usr, lock>>
    BY <1>17 DEF Connect, j
  <2>2. r.app = j.app /\ r.tx = j.tx /\ r.pc = pc /\ r.sync = j.sync
    BY <1>1 DEF Jobs
  <2>3. j.sync # "RESET"
    BY <2>1 DEF UpdaterInv, j
  <2> HIDE DEF r
  <2> QED
    BY <1>1, <1>6, <2>1, <2>2, <2>3 DEF Updating, SyncStates
<1>18. ASSUME ConnectFails(u) PROVE Goal
  <2>1. /\ Step(u, Report(j, j.sync)) \/ Step(u, NoJob)
        /\ j.pc = "connect" /\ UNCHANGED <<row, counter, usr, lock>>
    BY <1>18 DEF ConnectFails, j
  <2> QED
    BY <1>1, <1>5, <1>6, <1>9, <2>1 DEF Updating
<1>19. ASSUME InstallMissingMemberships(u) \/ RemoveRedundantMemberships(u) PROVE Goal
  <2>1. PICK e : RemoteCall(u, e, j) /\ j.pc = "memberships"
    BY <1>19 DEF InstallMissingMemberships, RemoveRedundantMemberships, j
  <2> QED
    BY <1>1, <1>8, <2>1 DEF Updating
<1>20. ASSUME MembershipsDone(u) PROVE Goal
  <2> DEFINE r == [j EXCEPT !.pc = "identity"]
  <2>1. RemoteCall(u, d, r) /\ j.pc = "memberships"
    BY <1>20 DEF MembershipsDone, j, d
  <2>2. r.app = j.app /\ r.tx = j.tx /\ r.pc = "identity" /\ r.sync = j.sync
    BY <1>1 DEF Jobs
  <2> HIDE DEF r
  <2> QED
    BY <1>1, <1>8, <2>1, <2>2 DEF Updating
<1>21. ASSUME Refused(u), j.pc \in Updating PROVE Goal
  <2>1. Step(u, Report(j, j.sync)) /\ UNCHANGED <<row, counter, usr, lock>>
    BY <1>21 DEF Refused, GiveUp, j
  <2> QED
    BY <1>1, <1>6, <1>9, <1>21, <2>1 DEF Updating
<1>22. ASSUME ApplyIdentity(u) PROVE Goal
  <2> DEFINE r == [j EXCEPT !.pc = "policy"]
  <2>1. j.pc = "identity" /\ (Refused(u) \/ \E e : RemoteCall(u, e, r))
    BY <1>22 DEF ApplyIdentity, j
  <2>2. r.app = j.app /\ r.tx = j.tx /\ r.pc = "policy" /\ r.sync = j.sync
    BY <1>1 DEF Jobs
  <2> HIDE DEF r
  <2> QED
    BY <1>1, <1>8, <1>21, <2>1, <2>2 DEF Updating
<1>23. ASSUME ApplyPolicy(u) PROVE Goal
  <2>1. j.pc = "policy" /\ (Refused(u) \/ \E e : RemoteCall(u, e, Report(j, "OK")))
    BY <1>23 DEF ApplyPolicy, j
  <2>2. "OK" \in SyncStates
    BY DEF SyncStates
  <2> QED
    BY <1>1, <1>8, <1>9, <1>21, <2>1, <2>2 DEF Updating
<1>24. ASSUME ResetRemote(u) PROVE Goal
  <2>1. j.pc = "reset" /\ \E e : RemoteCall(u, e, Report(j, "RESET"))
    BY <1>24 DEF ResetRemote, j
  <2> QED
    BY <1>1, <1>8, <1>9, <2>1 DEF Updating
<1>25. ASSUME CompletedReset(u) PROVE Goal
  <2>1. /\ Step(u, NoJob) /\ UNCHANGED <<counter, usr, lock>> /\ j.pc = "report"
        /\ row' = [row EXCEPT ![j.app] = NoRow]
    BY <1>25 DEF CompletedReset, j
  <2>2. NoRequest
    BY <1>1, <1>2, <2>1 DEF NoRequest, Requested, NoRow
  <2>3. UpdaterInv(u)'
    BY <1>3, <2>1, NoJobInv
  <2> QED
    BY <1>3, <2>1, <2>2, <2>3 DEF Goal
<1>26. ASSUME CompletedOK(u) PROVE Goal
  <2> DEFINE r == [j EXCEPT !.pc = "persist"]
  <2>1. /\ Step(u, r) /\ UNCHANGED <<row, counter, usr>>
        /\ j.pc = "report" /\ j.sync = "OK" /\ j.tx = counter
        /\ lock = Nobody /\ lock' = u
    BY <1>26 DEF CompletedOK, Locked, j
  <2>2. r.app = j.app /\ r.tx = j.tx /\ r.pc = "persist" /\ r.sync = j.sync
    BY <1>1 DEF Jobs
  <2>3. ~Requested(j.app)
    BY <1>1, <1>2, <2>1 DEF UpdaterInv, j
  <2> HIDE DEF r
  <2>4. UpdaterInv(u)'
    BY <1>2, <1>3, <2>1, <2>2, <2>3 DEF UpdaterInv, Requested, Updating
  <2>5. Nobody \notin Threads
    BY AppSyncAssumption DEF Threads, Updaters
  <2> QED
    BY <1>3, <2>1, <2>4, <2>5 DEF Goal, NoRequest, Requested
<1>27. ASSUME CompletedNothing(u) PROVE Goal
  <2>1. Step(u, NoJob) /\ UNCHANGED <<row, counter, usr, lock>>
    BY <1>27 DEF CompletedNothing
  <2> QED
    BY <1>5, <2>1
<1>28. ASSUME Persist(u) PROVE Goal
  <2>1. /\ Step(u, NoJob) /\ UNCHANGED <<counter, usr>> /\ j.pc = "persist"
        /\ row' = [row EXCEPT ![j.app].sync = "OK"] \/ row' = row
    BY <1>28 DEF Persist, j
  <2>2. lock = u
    BY <2>1 DEF UpdaterInv, j
  <2>3. ~Requested(j.app)
    BY <2>1 DEF UpdaterInv, j
  <2>4. NoRequest
    BY <1>1, <1>2, <2>1, <2>3 DEF NoRequest, Requested, Rows
  <2>5. UpdaterInv(u)'
    BY <1>3, <2>1, NoJobInv
  <2> QED
    BY <1>3, <2>1, <2>2, <2>4, <2>5 DEF Goal
<1> QED
  BY <1>10, <1>11, <1>12, <1>13, <1>14, <1>15, <1>16, <1>17, <1>18, <1>19, <1>20,
     <1>22, <1>23, <1>24, <1>25, <1>26, <1>27, <1>28 DEF Updater, Goal

\* The request itself.  It makes the counter newer than any job in progress.
LEMMA RequestKeeps ==
  ASSUME IInv, NEW x \in Users, Requesting(x)
  PROVE  KeptInv'
<1>1. /\ lock = Nobody /\ lock' = Nobody /\ upd' = upd /\ counter' = counter + 1
      /\ counter \in Nat /\ usr \in [Users -> Calls]
  BY DEF Requesting, ResetApplication, ResetHolder, Locked, IInv, Typed, TypeOK
<1>2. Nobody \notin Threads
  BY AppSyncAssumption DEF Threads, Updaters
<1>3. ASSUME NEW y \in Users PROVE UserInv(y)'
  <2>1. usr[y].pc # "markPending"
    BY <1>1, <1>2 DEF IInv, KeptInv, UserInv, Threads
  <2>2. usr'[y].pc # "markPending"
    <3>1. CASE ResetHolder(x)
      <4>1. Goto(x, "notify") \/ Return(x)
        BY <3>1 DEF ResetHolder
      <4>2. usr[x] \in Calls
        BY <1>1
      <4> QED
        BY <1>1, <2>1, <4>1, <4>2 DEF Goto, Return, NoCall, Calls
    <3>2. CASE \E a \in Apps : ResetApplication(x, a)
      BY <1>1, <2>1, <3>2 DEF ResetApplication, Call, NoCall
    <3> QED
      BY <3>1, <3>2 DEF Requesting
  <2> QED
    BY <2>2 DEF UserInv
<1>4. ASSUME NEW u \in Updaters PROVE UpdaterInv(u)'
  <2>1. UpdaterInv(u) /\ upd[u].tx \in Nat
    BY DEF IInv, KeptInv, Typed, TypeOK, Jobs
  <2>2. upd[u].pc # "persist" /\ upd'[u] = upd[u]
    BY <1>1, <1>2, <2>1 DEF UpdaterInv, Threads
  <2>3. upd[u].tx < counter' /\ upd[u].tx <= counter'
    BY <1>1, <2>1 DEF UpdaterInv
  <2> QED
    BY <2>1, <2>2, <2>3 DEF UpdaterInv, Requested
<1> QED
  BY <1>3, <1>4 DEF KeptInv

\* Every other step.
LEMMA OthersKeep ==
  ASSUME IInv, Typed', [Next]_vars,
         \A x \in Users : ~Requesting(x)
  PROVE  NoRequest /\ KeptInv'
<1>1. Typed /\ counter \in Nat /\ counter' \in Nat
  BY DEF IInv, Typed, TypeOK
<1>2. /\ \A x \in Users : UserInv(x) /\ x \in Threads
      /\ \A u \in Updaters : UpdaterInv(u) /\ u \in Threads
      /\ \A x \in Users, u \in Updaters : x # u
  BY AppSyncAssumption DEF IInv, KeptInv, Threads, Updaters
<1>3. ASSUME NEW x \in Users, User(x) PROVE NoRequest /\ KeptInv'
  <2>1. /\ NoRequest
        /\ counter <= counter' /\ upd' = upd
        /\ \A t \in Threads \ {x} : lock = t => lock' = t
        /\ \A y \in Users \ {x} : usr'[y] = usr[y]
        /\ UserInv(x)'
    BY <1>1, <1>2, <1>3, UserKeeps
  <2>2. \A a \in Apps : Requested(a)' => Requested(a)
    BY <2>1 DEF NoRequest
  <2>3. ASSUME NEW y \in Users PROVE UserInv(y)'
    BY <1>1, <1>2, <2>1, <2>2, UserFrame
  <2>4. ASSUME NEW u \in Updaters PROVE UpdaterInv(u)'
    BY <1>1, <1>2, <2>1, <2>2, UpdaterFrame
  <2> QED
    BY <2>1, <2>3, <2>4 DEF KeptInv
<1>4. ASSUME NEW u \in Updaters, Updater(u) PROVE NoRequest /\ KeptInv'
  <2>1. /\ NoRequest
        /\ counter' = counter /\ usr' = usr
        /\ \A t \in Threads \ {u} : lock = t => lock' = t
        /\ \A v \in Updaters \ {u} : upd'[v] = upd[v]
        /\ UpdaterInv(u)'
    BY <1>1, <1>2, <1>4, UpdaterKeeps
  <2>2. (\A a \in Apps : Requested(a)' => Requested(a)) /\ counter <= counter'
    BY <1>1, <2>1 DEF NoRequest
  <2>3. ASSUME NEW y \in Users PROVE UserInv(y)'
    BY <1>1, <1>2, <2>1, <2>2, UserFrame
  <2>4. ASSUME NEW v \in Updaters PROVE UpdaterInv(v)'
    BY <1>1, <1>2, <2>1, <2>2, UpdaterFrame
  <2> QED
    BY <2>1, <2>3, <2>4 DEF KeptInv
<1>5. ASSUME UNCHANGED <<row, counter, usr, upd, lock>> PROVE NoRequest /\ KeptInv'
  BY <1>2, <1>5 DEF NoRequest, Requested, KeptInv, UserInv, UpdaterInv
<1>6. ASSUME NEW a \in Apps, State(a) \/ AppStops(a) \/ AppNeedsUpdate(a) \/ AppStarts(a)
      PROVE  NoRequest /\ KeptInv'
  BY <1>5, <1>6 DEF State, AppStops, AppNeedsUpdate, AppStarts, AppEvent
<1>7. ASSUME Crash PROVE NoRequest /\ KeptInv'
  <2>1. NoRequest
    BY <1>7 DEF Crash, NoRequest, Requested
  <2>2. \A x \in Users : usr'[x] = NoCall
    BY <1>7 DEF Crash
  <2>3. \A u \in Updaters : upd'[u] = NoJob
    BY <1>7 DEF Crash
  <2>4. counter' = 0
    BY <1>7 DEF Crash
  <2>5. \A x \in Users : UserInv(x)'
    BY <2>2 DEF UserInv, NoCall
  <2>6. \A u \in Updaters : UpdaterInv(u)'
    BY <2>3, <2>4 DEF UpdaterInv, NoJob, Updating
  <2> QED
    BY <2>1, <2>5, <2>6 DEF KeptInv
<1> QED
  BY <1>3, <1>4, <1>5, <1>6, <1>7 DEF Next, vars

\* The invariant holds initially, when no call and no job has begun.
LEMMA InitKept ==
  ASSUME Init
  PROVE  KeptInv
BY DEF Init, KeptInv, UserInv, UpdaterInv, NoCall, NoJob, Updating

\* The invariant is inductive.
LEMMA InvariantKept ==
  ASSUME IInv, [Next]_vars
  PROVE  IInv'
<1>1. Typed'
  BY NextTyped DEF IInv
<1>2. CASE \E x \in Users : Requesting(x)
  BY <1>1, <1>2, RequestKeeps DEF IInv
<1>3. CASE \A x \in Users : ~Requesting(x)
  BY <1>1, <1>3, OthersKeep DEF IInv
<1> QED
  BY <1>2, <1>3

\* No step overwrites a request to reset an application.
LEMMA RequestStays ==
  ASSUME IInv, [Next]_vars
  PROVE  \A a \in Apps :
           row[a].managed /\ row[a].sync = "WILL_RESET" /\ row'[a].managed
             => row'[a].sync = "WILL_RESET"
<1> DEFINE Kept == \A a \in Apps :
                     row[a].managed /\ row[a].sync = "WILL_RESET" /\ row'[a].managed
                       => row'[a].sync = "WILL_RESET"
<1>1. row \in [Apps -> Rows] /\ Typed'
  BY NextTyped DEF IInv, Typed, TypeOK
<1>2. ASSUME NEW x \in Users, Requesting(x) PROVE Kept
  <2>1. \/ row' = row
        \/ \E a \in Apps : row' = [row EXCEPT ![a].sync = "WILL_RESET"]
    <3>1. CASE ResetHolder(x)
      <4>1. usr[x].app \in Apps
        BY <3>1 DEF ResetHolder, IInv, Typed, WorkInv
      <4> QED
        BY <3>1, <4>1 DEF ResetHolder
    <3>2. CASE \E a \in Apps : ResetApplication(x, a)
      BY <3>2 DEF ResetApplication
    <3> QED
      BY <1>2, <3>1, <3>2 DEF Requesting
  <2> QED
    BY <1>1, <2>1 DEF Rows
<1>3. ASSUME \A x \in Users : ~Requesting(x) PROVE Kept
  BY <1>1, <1>3, OthersKeep DEF NoRequest, Requested
<1> QED
  BY <1>2, <1>3

\* A request to reset an application that the storage has accepted is never
\* overwritten, by ApplicationUpdated of any thread or by the end of an update
\* that was in progress when it was made: StoreApplication is never told
\* another state of that application until the application is removed.
THEOREM ResetKept == Spec => ResetIsKept
<1>1. Init => IInv
  BY InitTyped, InitKept DEF IInv
<1>2. IInv /\ [Next]_vars => IInv'
  BY InvariantKept
<1>3. IInv /\ [Next]_vars =>
        \A a \in Apps : row[a].managed /\ row[a].sync = "WILL_RESET" /\ row'[a].managed
                          => row'[a].sync = "WILL_RESET"
  BY RequestStays
<1> QED
  BY <1>1, <1>2, <1>3, PTL DEF Spec, ResetIsKept

------------------------------------------------------------------------------
(* An application that is up to date in the storage has the configuration  *)
(* in the storage.                                                         *)

OneApp == \A a, b \in Apps : a = b

\* What SyncedWhenOK depends on.  Without any of these the code breaks it.
Guarded ==
  /\ MaxCrashes = 0
  /\ Ops \cap {"RemovePolicy", "Claim", "UpdateApplications"} = {}
  /\ "UpdatePolicy" \in Ops => \A x, y \in Users : x = y
  /\ \/ OneApp
     \/ Ops \cap {"RemoveGroup", "RemoveIdentity"} = {}
     \/ Ops \cap {"RemoveIdentity", "ResetApplication", "RemoveApplication"} = {}

------------------------------------------------------------------------------
(* The inductive invariant *)

job == upd[Queue]

\* The row of a was changed by a call of x that has not come to
\* ApplicationUpdated, or to ResetApplication, yet.
ChangedBy(x, a) ==
  \/ usr[x].app = a /\ usr[x].pc \in {"storeManifest", "updated", "reset"}
  \/ a \in usr[x].todo

Changing(a) == \E x \in Users : ChangedBy(x, a)

\* ApplicationUpdated has bumped the counter and is about to store PENDING.
MarkedBy(x, a) == usr[x].app = a /\ usr[x].pc = "markPending"

Marking(a) == \E x \in Users : MarkedBy(x, a)

\* Nothing was changed since StartUpdates.
Latest(a) ==
  /\ ~Changing(a)
  /\ \/ job.tx = counter
     \/ row[a].sync = "OK" /\ ~Marking(a)

HasPol == {"connect", "memberships", "identity", "policy"}
HasId  == {"readManifest", "readPolicy"} \cup HasPol
HasMem == {"readIdentity"} \cup HasId

\* What has been read is what is in the storage.
ReadIsStored(a) ==
  /\ job.pc \in HasMem => job.mem = row[a].mem
  /\ job.pc \in HasId => job.id = row[a].id
  /\ job.pc \in HasPol => job.pol = row[a].pol

\* Version p is an earlier one than q, or the same.
Older(p, q) == p.ver <= q.ver /\ (p.ver = q.ver => p = q)

CallInv(x) ==
  LET c == usr[x] IN
  /\ c.pc \notin {"claimed", "unclaim"}
  /\ c.pc = "storePolicy" => "UpdatePolicy" \in Ops /\ c.pol.ver > row[c.app].pol.ver
  /\ c.pc \in {"idle", "storePolicy", "storeManifest"} => c.todo = {}
  /\ c.app \notin c.todo
  /\ c.todo # {} => row[c.app].managed /\ ~OneApp /\ Ops \cap {"RemoveGroup", "RemoveIdentity"} # {}
  /\ \A a \in c.todo : row[a].managed
  /\ c.pc = "markPending" => counter > 0 /\ (job.app = c.app => job.tx < counter)

\* Without these operations no application is ever to be reset.
NoResets ==
  Ops \cap {"RemoveIdentity", "ResetApplication", "RemoveApplication"} = {} =>
    /\ \A a \in Apps : ~Requested(a)
    /\ job.sync \notin {"WILL_RESET", "RESET"}
    /\ \A x \in Users : usr[x].pc # "reset" /\ usr[x].each # "reset"

AppInv(a) ==
  row[a].managed /\ row[a].sync # "WILL_RESET" =>
    /\ Older(dev[a].pol, row[a].pol)
    /\ row[a].sync = "OK" /\ ~Changing(a) /\ ~Marking(a) => InSync(a)

\* The job of the queue's thread, after StartUpdates, if it is about a.
JobInv(a) ==
  /\ job.pc = "identity" => job.mem = dev[a].mem
  /\ job.pc = "policy" => job.mem = dev[a].mem /\ job.id = dev[a].id
  /\ job.pc = "persist" => job.sync = "OK" /\ job.tx = counter
  /\ job.pc = "reset" => job.sync = "WILL_RESET"
  /\ row[a].managed =>
       /\ job.sync = "WILL_RESET" => row[a].sync = "WILL_RESET"
       /\ job.sync # "WILL_RESET" /\ job.pc \in HasPol => Older(job.pol, row[a].pol)
       /\ job.pc \notin {"report", "persist"} /\ job.tx = counter => row[a].sync = job.sync
       /\ job.sync # "WILL_RESET" /\ Latest(a) => ReadIsStored(a)
       /\ job.pc \in {"report", "persist"} /\ job.sync = "OK" /\ ~Changing(a) /\ job.tx = counter
            => InSync(a)

Working(a) == job.app = a /\ job.pc \notin {"idle", "start"}

CallsInv == \A x \in Users : CallInv(x)
AppsInv == \A a \in Apps : AppInv(a) /\ (Working(a) => JobInv(a))
CallersInv == \A u \in Callers : upd[u].pc = "idle"

SInv == IInv /\ CallsInv /\ NoResets /\ AppsInv /\ CallersInv

------------------------------------------------------------------------------
(* The steps of the UI *)

\* The job, if it is about a, was told an earlier value of the counter.
Passed(a) == job.app = a => job.tx < counter'

\* What a step of x may do to an application.
Effect(x, a) ==
  row'[a].managed =>
    /\ row[a].managed
    /\ row'[a].sync = row[a].sync \/ Passed(a)
    /\ row'[a].pol = row[a].pol \/ row'[a].pol.ver > row[a].pol.ver
    /\ \/ ChangedBy(x, a)'
       \/ Passed(a) /\ (row'[a].sync = "OK" => MarkedBy(x, a)')
       \/ /\ row'[a] = row[a]
          /\ ChangedBy(x, a) => ChangedBy(x, a)'
          /\ MarkedBy(x, a) => MarkedBy(x, a)'

LEMMA UserTypes ==
  ASSUME Typed, NEW x \in Users
  PROVE  /\ usr \in [Users -> Calls] /\ usr[x] \in Calls
         /\ row \in [Apps -> Rows]
         /\ counter \in Nat
         /\ job \in Jobs /\ job.tx \in Nat
         /\ usr[x].pc # "idle" => usr[x].app \in Apps
BY DEF Typed, TypeOK, WorkInv, job, Updaters, Jobs

\* A call that begins.
LEMMA CallBegins ==
  ASSUME Typed, Typed', NEW x \in Users, CallInv(x), usr[x].pc = "idle",
         NEW a \in Apps, row'[a] = row[a]
  PROVE  Effect(x, a)
<1>1. ~ChangedBy(x, a) \/ usr[x].todo # {}
  BY DEF ChangedBy
<1>2. ~MarkedBy(x, a)
  BY DEF MarkedBy
<1>3. usr[x].todo = {}
  BY DEF CallInv
<1> QED
  BY <1>1, <1>2, <1>3 DEF Effect

\* An application that the call has just changed.
LEMMA CallChanges ==
  ASSUME Typed, NEW x \in Users, NEW a \in Apps,
         usr'[x].app = a, usr'[x].pc \in {"storeManifest", "updated", "reset"},
         row'[a].managed => /\ row[a].managed /\ row'[a].sync = row[a].sync
                            /\ row'[a].pol = row[a].pol \/ row'[a].pol.ver > row[a].pol.ver
  PROVE  Effect(x, a)
<1>1. ChangedBy(x, a)'
  BY DEF ChangedBy
<1> QED
  BY <1>1 DEF Effect

\* The operations that Guarded leaves to the UI.
LEMMA UserCases ==
  ASSUME Guarded, NEW x \in Users, CallInv(x), User(x)
  PROVE  \/ \E a \in Apps :
              \/ \E g \in Groups : InstallMembership(x, a, g) \/ RemoveMembership(x, a, g)
              \/ \E p \in Policies : UpdatePolicy(x, a, p)
              \/ UpdateIdentity(x, a)
              \/ ResetApplication(x, a)
              \/ ResetUnmanaged(x, a)
              \/ RemoveApplication(x, a)
         \/ \E g \in Groups : RemoveGroup(x, g)
         \/ \E as \in SUBSET Apps : RemoveIdentity(x, as)
         \/ ResetHolder(x)
         \/ StorePolicy(x)
         \/ StoreManifest(x)
         \/ ApplicationUpdated(x)
         \/ MarkPending(x)
         \/ NotifyPending(x)
<1>1. ~FinishClaiming(x) /\ ~Unclaim(x)
  BY DEF CallInv, FinishClaiming, Unclaim
<1>2. \A a \in Apps : ~RemovePolicy(x, a) /\ ~Claim(x, a)
  BY DEF Guarded, RemovePolicy, Claim, Starts
<1> QED
  BY <1>1, <1>2 DEF User

\* What the steps of the UI leave alone.
LEMMA UserLeaves ==
  ASSUME Guarded, Typed, NEW x \in Users, CallInv(x), UpdaterInv(Queue), User(x)
  PROVE  /\ upd' = upd /\ dev' = dev
         /\ counter' \in Nat /\ counter <= counter'
         /\ \A y \in Users \ {x} : usr'[y] = usr[y]
         /\ job.pc = "persist" => counter' = counter
<1> DEFINE Goal == /\ upd' = upd /\ dev' = dev
                   /\ counter' \in Nat /\ counter <= counter'
                   /\ \A y \in Users \ {x} : usr'[y] = usr[y]
                   /\ job.pc = "persist" => counter' = counter
<1>1. usr \in [Users -> Calls] /\ counter \in Nat
  BY UserTypes
<1>2. Locked(x) => job.pc # "persist"
  BY AppSyncAssumption DEF Locked, UpdaterInv, job
<1>3. ASSUME NEW a \in Apps, NEW g \in Groups,
             InstallMembership(x, a, g) \/ RemoveMembership(x, a, g)
      PROVE  Goal
  BY <1>1, <1>3 DEF InstallMembership, RemoveMembership, ThenUpdated
<1>4. ASSUME NEW a \in Apps, NEW p \in Policies, UpdatePolicy(x, a, p) PROVE Goal
  BY <1>1, <1>4 DEF UpdatePolicy
<1>5. ASSUME NEW a \in Apps, UpdateIdentity(x, a) PROVE Goal
  BY <1>1, <1>5 DEF UpdateIdentity
<1>6. ASSUME NEW a \in Apps, ResetApplication(x, a) \/ ResetUnmanaged(x, a) \/ RemoveApplication(x, a)
      PROVE  Goal
  BY <1>1, <1>2, <1>6 DEF ResetApplication, ResetUnmanaged, RemoveApplication
<1>7. ASSUME NEW g \in Groups, RemoveGroup(x, g) PROVE Goal
  BY <1>1, <1>7 DEF RemoveGroup, ForEach
<1>8. ASSUME NEW as \in SUBSET Apps, RemoveIdentity(x, as) PROVE Goal
  BY <1>1, <1>8 DEF RemoveIdentity, ForEach
<1>9. ASSUME ResetHolder(x) PROVE Goal
  BY <1>1, <1>2, <1>9 DEF ResetHolder, Goto, Return
<1>10. ASSUME StorePolicy(x) \/ StoreManifest(x) PROVE Goal
  BY <1>1, <1>10 DEF StorePolicy, StoreManifest, ThenUpdated
<1>11. ASSUME ApplicationUpdated(x) PROVE Goal
  BY <1>1, <1>2, <1>11 DEF ApplicationUpdated, Goto, Return
<1>12. ASSUME MarkPending(x) PROVE Goal
  BY <1>1, <1>12 DEF MarkPending, Goto
<1>13. ASSUME NotifyPending(x) PROVE Goal
  <2>1. \E c : usr' = [usr EXCEPT ![x] = c]
    BY <1>13 DEF NotifyPending, Proceed, Return
  <2> QED
    BY <1>1, <1>13, <2>1 DEF NotifyPending
<1> QED
  BY UserCases, <1>3, <1>4, <1>5, <1>6, <1>7, <1>8, <1>9, <1>10, <1>11, <1>12, <1>13

\* An application that the call was asked to change, or that it goes on with.
LEMMA CallStays ==
  ASSUME Typed, NEW x \in Users, NEW a \in Apps, row'[a] = row[a],
         ChangedBy(x, a) => ChangedBy(x, a)',
         MarkedBy(x, a) => MarkedBy(x, a)'
  PROVE  Effect(x, a)
BY DEF Effect

LEMMA BeginsEffect ==
  ASSUME Typed, Typed', NEW x \in Users, CallInv(x), NEW b \in Apps,
         \/ \E g \in Groups : InstallMembership(x, b, g) \/ RemoveMembership(x, b, g)
         \/ \E p \in Policies : UpdatePolicy(x, b, p)
         \/ UpdateIdentity(x, b)
         \/ ResetUnmanaged(x, b)
         \/ RemoveApplication(x, b)
  PROVE  \A a \in Apps : Effect(x, a)
<1>1. /\ usr \in [Users -> Calls] /\ usr[x] \in Calls
      /\ row \in [Apps -> Rows]
  BY UserTypes
<1>2. usr[x].pc = "idle"
  BY DEF InstallMembership, RemoveMembership, UpdatePolicy, UpdateIdentity,
         ResetUnmanaged, RemoveApplication, Starts
<1>3. ASSUME NEW a \in Apps, a # b PROVE Effect(x, a)
  <2>1. row'[a] = row[a]
    BY <1>1, <1>3 DEF InstallMembership, RemoveMembership, UpdatePolicy, UpdateIdentity,
           ResetUnmanaged, RemoveApplication
  <2> QED
    BY <1>2, <2>1, CallBegins
<1>4. Effect(x, b)
  <2>1. CASE \E g \in Groups : InstallMembership(x, b, g) \/ RemoveMembership(x, b, g)
    <3>1. PICK m : row' = [row EXCEPT ![b].mem = m]
      BY <1>1, <2>1 DEF InstallMembership, RemoveMembership
    <3>2. usr' = [usr EXCEPT ![x] = [Call(x, "updated", b) EXCEPT !.bump = TRUE]]
      BY <2>1 DEF InstallMembership, RemoveMembership, ThenUpdated
    <3>3. row[b].managed
      BY <2>1 DEF InstallMembership, RemoveMembership
    <3>4. usr'[x].app = b /\ usr'[x].pc = "updated"
      BY <1>1, <3>2 DEF Call, NoCall
    <3>5. row'[b].sync = row[b].sync /\ row'[b].pol = row[b].pol
      BY <1>1, <3>1 DEF Rows
    <3> QED
      BY <3>3, <3>4, <3>5, CallChanges
  <2>2. CASE \E p \in Policies : UpdatePolicy(x, b, p)
    BY <1>2, <2>2, CallBegins DEF UpdatePolicy
  <2>3. CASE UpdateIdentity(x, b)
    <3>1. row' = [row EXCEPT ![b].id = serial] /\ row[b].managed
      BY <2>3 DEF UpdateIdentity
    <3>2. usr' = [usr EXCEPT ![x] = [Call(x, "storeManifest", b) EXCEPT !.ser = serial]]
      BY <2>3 DEF UpdateIdentity
    <3>3. usr'[x].app = b /\ usr'[x].pc = "storeManifest"
      BY <1>1, <3>2 DEF Call, NoCall
    <3>4. row'[b].sync = row[b].sync /\ row'[b].pol = row[b].pol
      BY <1>1, <3>1 DEF Rows
    <3> QED
      BY <3>1, <3>3, <3>4, CallChanges
  <2>4. CASE ResetUnmanaged(x, b)
    BY <1>2, <2>4, CallBegins DEF ResetUnmanaged
  <2>5. CASE RemoveApplication(x, b)
    BY <1>1, <2>5 DEF RemoveApplication, NoRow, Effect
  <2> QED
    BY <2>1, <2>2, <2>3, <2>4, <2>5
<1> QED
  BY <1>3, <1>4

\* The calls that change several applications.
LEMMA SeveralEffect ==
  ASSUME Typed, Typed', NEW x \in Users, CallInv(x),
         \/ \E g \in Groups : RemoveGroup(x, g)
         \/ \E as \in SUBSET Apps : RemoveIdentity(x, as)
  PROVE  \A a \in Apps : Effect(x, a)
<1>1. /\ usr \in [Users -> Calls] /\ usr[x] \in Calls
      /\ row \in [Apps -> Rows]
  BY UserTypes
<1>2. usr[x].pc = "idle"
  BY DEF RemoveGroup, RemoveIdentity, Starts
<1>3. ASSUME NEW as \in SUBSET Apps, NEW op \in {"updated", "reset"}, ForEach(x, as, op),
             NEW a \in as, row[a].managed, row'[a].sync = row[a].sync,
             row'[a].pol = row[a].pol
      PROVE  Effect(x, a)
  <2>1. PICK b \in as :
          usr' = [usr EXCEPT ![x] = [Call(x, op, b) EXCEPT
                                       !.bump = TRUE, !.todo = as \ {b}, !.each = op]]
    BY <1>3 DEF ForEach
  <2>2. usr'[x].app = b /\ usr'[x].pc = op /\ usr'[x].todo = as \ {b}
    BY <1>1, <2>1 DEF Call, NoCall
  <2>3. ChangedBy(x, a)'
    BY <2>2 DEF ChangedBy
  <2> QED
    BY <1>3, <2>3 DEF Effect
<1>4. ASSUME NEW g \in Groups, RemoveGroup(x, g), NEW a \in Apps PROVE Effect(x, a)
  <2> DEFINE members == {b \in Apps : row[b].managed /\ \E c \in row[b].mem : c.grp = g}
  <2>1. ForEach(x, members, "updated")
    BY <1>4 DEF RemoveGroup
  <2>2. row'[a] = [row[a] EXCEPT !.mem = {c \in row[a].mem : c.grp # g}]
    BY <1>4 DEF RemoveGroup
  <2>3. row[a] \in Rows
    BY <1>1
  <2>4. row'[a].sync = row[a].sync /\ row'[a].pol = row[a].pol /\ row'[a].managed = row[a].managed
    BY <2>2, <2>3 DEF Rows
  <2>5. CASE a \in members
    BY <1>3, <2>1, <2>4, <2>5
  <2>6. CASE row[a].managed /\ a \notin members
    <3>1. {c \in row[a].mem : c.grp # g} = row[a].mem
      BY <2>6
    <3>2. row'[a] = row[a]
      BY <2>2, <2>3, <3>1 DEF Rows
    <3> QED
      BY <1>2, <3>2, CallBegins
  <2>7. CASE ~row[a].managed
    BY <2>4, <2>7 DEF Effect
  <2> QED
    BY <2>5, <2>6, <2>7
<1>5. ASSUME NEW as \in SUBSET Apps, RemoveIdentity(x, as), NEW a \in Apps PROVE Effect(x, a)
  <2>1. ForEach(x, as, "reset")
    BY <1>5 DEF RemoveIdentity
  <2>2. CASE a \in as
    <3>1. row'[a] = [row[a] EXCEPT !.id = 0] /\ row[a].managed /\ row[a] \in Rows
      BY <1>1, <1>5, <2>2 DEF RemoveIdentity
    <3>2. row'[a].sync = row[a].sync /\ row'[a].pol = row[a].pol
      BY <3>1 DEF Rows
    <3> QED
      BY <1>3, <2>1, <2>2, <3>1, <3>2
  <2>3. CASE a \notin as
    <3>1. row'[a] = row[a]
      BY <1>5, <2>3 DEF RemoveIdentity
    <3> QED
      BY <1>2, <3>1, CallBegins
  <2> QED
    BY <2>2, <2>3
<1> QED
  BY <1>4, <1>5

\* The steps by which a call goes on.
LEMMA StoresEffect ==
  ASSUME Typed, Typed', NEW x \in Users, CallInv(x),
         StorePolicy(x) \/ StoreManifest(x)
  PROVE  \A a \in Apps : Effect(x, a)
<1> DEFINE b == usr[x].app
<1>1. /\ usr \in [Users -> Calls] /\ usr[x] \in Calls
      /\ row \in [Apps -> Rows]
  BY UserTypes
<1>2. usr[x].pc \in {"storePolicy", "storeManifest"}
  BY DEF StorePolicy, StoreManifest
<1>3. b \in Apps
  BY <1>2, UserTypes
<1>4. usr[x].todo = {}
  BY <1>2 DEF CallInv
<1>5. usr'[x].app = b /\ usr'[x].pc = "updated"
  <2>1. \E v : usr' = [usr EXCEPT ![x] = [Call(x, "updated", b) EXCEPT !.bump = v]]
    BY DEF StorePolicy, StoreManifest, ThenUpdated
  <2> QED
    BY <1>1, <2>1 DEF Call, NoCall
<1>6. Effect(x, b)
  <2>1. CASE ~row[b].managed
    <3>1. row' = row
      BY <2>1 DEF StorePolicy, StoreManifest
    <3> QED
      BY <2>1, <3>1 DEF Effect
  <2>2. CASE row[b].managed /\ StorePolicy(x)
    <3>1. row' = [row EXCEPT ![b].pol = usr[x].pol] /\ usr[x].pc = "storePolicy"
      BY <2>2 DEF StorePolicy
    <3>2. usr[x].pol.ver > row[b].pol.ver
      BY <3>1 DEF CallInv
    <3>3. row'[b].sync = row[b].sync /\ row'[b].pol = usr[x].pol
      BY <1>1, <1>3, <3>1 DEF Rows
    <3> QED
      BY <1>3, <1>5, <2>2, <3>2, <3>3, CallChanges
  <2>3. CASE row[b].managed /\ StoreManifest(x)
    <3>1. row' = [row EXCEPT ![b].mf = usr[x].ser]
      BY <2>3 DEF StoreManifest
    <3>2. row'[b].sync = row[b].sync /\ row'[b].pol = row[b].pol
      BY <1>1, <1>3, <3>1 DEF Rows
    <3> QED
      BY <1>3, <1>5, <2>3, <3>2, CallChanges
  <2> QED
    BY <2>1, <2>2, <2>3
<1>7. ASSUME NEW a \in Apps, a # b PROVE Effect(x, a)
  <2>1. row'[a] = row[a]
    BY <1>1, <1>7 DEF StorePolicy, StoreManifest
  <2>2. ~ChangedBy(x, a) /\ ~MarkedBy(x, a)
    BY <1>4, <1>7 DEF ChangedBy, MarkedBy
  <2> QED
    BY <2>1, <2>2, CallStays
<1> QED
  BY <1>6, <1>7

\* A call that is not among the first to notice that an application is gone.
LEMMA ReturnsEarly ==
  ASSUME Typed, NEW x \in Users, CallInv(x), ~row[usr[x].app].managed, row' = row,
         usr[x].pc # "idle"
  PROVE  \A a \in Apps : Effect(x, a)
<1>1. usr[x].todo = {} /\ usr[x].app \in Apps
  BY UserTypes DEF CallInv
<1>2. ASSUME NEW a \in Apps PROVE Effect(x, a)
  <2>1. CASE a = usr[x].app
    BY <2>1 DEF Effect
  <2>2. CASE a # usr[x].app
    <3>1. ~ChangedBy(x, a) /\ ~MarkedBy(x, a)
      BY <1>1, <2>2 DEF ChangedBy, MarkedBy
    <3> QED
      BY <3>1, CallStays
  <2> QED
    BY <2>1, <2>2
<1> QED
  BY <1>2

\* A job that has been told the counter before it is bumped.
LEMMA BumpPasses ==
  ASSUME Typed, UpdaterInv(Queue), counter' = counter + 1
  PROVE  \A a : Passed(a)
<1>1. job.tx \in Nat /\ counter \in Nat /\ job.tx <= counter
  BY DEF Typed, TypeOK, Updaters, Jobs, UpdaterInv, job
<1> QED
  BY <1>1 DEF Passed

LEMMA ResetsEffect ==
  ASSUME Typed, Typed', NEW x \in Users, CallInv(x), UpdaterInv(Queue),
         ResetHolder(x) \/ \E b \in Apps : ResetApplication(x, b)
  PROVE  \A a \in Apps : Effect(x, a)
<1>1. /\ usr \in [Users -> Calls] /\ usr[x] \in Calls
      /\ row \in [Apps -> Rows]
  BY UserTypes
<1>2. \A a : Passed(a)
  BY BumpPasses DEF ResetHolder, ResetApplication
<1>3. ASSUME NEW b \in Apps, row[b].managed, row' = [row EXCEPT ![b].sync = "WILL_RESET"],
             NEW c \in Calls, usr' = [usr EXCEPT ![x] = c], c.todo = usr[x].todo,
             usr[x].pc = "idle" \/ usr[x].app = b,
             NEW a \in Apps
      PROVE  Effect(x, a)
  <2>1. CASE a = b
    <3>1. row'[a].sync = "WILL_RESET" /\ row'[a].pol = row[a].pol
      BY <1>1, <1>3, <2>1 DEF Rows
    <3> QED
      BY <1>2, <1>3, <2>1, <3>1 DEF Effect
  <2>2. CASE a # b /\ usr[x].pc = "idle"
    <3>1. row'[a] = row[a]
      BY <1>1, <1>3, <2>2
    <3> QED
      BY <2>2, <3>1, CallBegins
  <2>3. CASE a # b /\ usr[x].app = b
    <3>1. row'[a] = row[a]
      BY <1>1, <1>3, <2>3
    <3>2. usr'[x].todo = usr[x].todo
      BY <1>1, <1>3
    <3>3. ChangedBy(x, a) => ChangedBy(x, a)'
      BY <2>3, <3>2 DEF ChangedBy
    <3>4. ~MarkedBy(x, a)
      BY <2>3 DEF MarkedBy
    <3> QED
      BY <3>1, <3>3, <3>4, CallStays
  <2> QED
    BY <1>3, <2>1, <2>2, <2>3
<1>4. ASSUME NEW b \in Apps, ResetApplication(x, b), NEW a \in Apps PROVE Effect(x, a)
  <2>1. usr[x].pc = "idle" /\ usr[x].todo = {}
    BY <1>4 DEF ResetApplication, Starts, CallInv
  <2>2. Call(x, "notify", b) \in Calls /\ Call(x, "notify", b).todo = {}
    BY DEF Call, NoCall, Calls, UserPcs, DefaultPolicy, Versions
  <2> QED
    BY <1>3, <1>4, <2>1, <2>2 DEF ResetApplication
<1>5. ASSUME ResetHolder(x), NEW a \in Apps PROVE Effect(x, a)
  <2> DEFINE b == usr[x].app
  <2>1. b \in Apps /\ usr[x].pc = "reset"
    BY <1>5, UserTypes DEF ResetHolder
  <2>2. CASE row[b].managed
    <3>1. row' = [row EXCEPT ![b].sync = "WILL_RESET"] /\ usr' = [usr EXCEPT ![x].pc = "notify"]
      BY <1>5, <2>2 DEF ResetHolder, Goto
    <3> DEFINE c == [usr[x] EXCEPT !.pc = "notify"]
    <3>2. usr' = [usr EXCEPT ![x] = c]
      BY <3>1
    <3>3. c \in Calls /\ c.todo = usr[x].todo
      BY <1>1 DEF Calls, UserPcs
    <3> HIDE DEF c
    <3> QED
      BY <1>3, <2>1, <2>2, <3>1, <3>2, <3>3
  <2>3. CASE ~row[b].managed
    <3>1. row' = row
      BY <1>5, <2>3 DEF ResetHolder
    <3> QED
      BY <2>1, <2>3, <3>1, ReturnsEarly
  <2> QED
    BY <2>2, <2>3
<1> QED
  BY <1>4, <1>5

LEMMA UpdatedEffect ==
  ASSUME Typed, Typed', NEW x \in Users, CallInv(x), UpdaterInv(Queue), ApplicationUpdated(x)
  PROVE  \A a \in Apps : Effect(x, a)
<1> DEFINE b == usr[x].app
<1>1. /\ usr \in [Users -> Calls] /\ usr[x] \in Calls
      /\ row \in [Apps -> Rows]
  BY UserTypes
<1>2. b \in Apps /\ usr[x].pc = "updated" /\ row' = row
  BY UserTypes DEF ApplicationUpdated
<1>3. CASE row[b].managed
  <2>1. counter' = counter + 1
    BY <1>3 DEF ApplicationUpdated
  <2>2. \A a : Passed(a)
    BY <2>1, BumpPasses
  <2>3. PICK pc \in {"markPending", "notify"} :
          usr' = [usr EXCEPT ![x].pc = pc] /\ (row[b].sync = "OK" => pc = "markPending")
    BY <1>3 DEF ApplicationUpdated, Goto
  <2>4. usr'[x] = [usr[x] EXCEPT !.pc = pc]
    BY <1>1, <2>3
  <2>5. usr'[x].app = b /\ usr'[x].pc = pc /\ usr'[x].todo = usr[x].todo
    BY <1>1, <2>4 DEF Calls
  <2>6. ASSUME NEW a \in Apps, a # b PROVE Effect(x, a)
    <3>1. (ChangedBy(x, a) => ChangedBy(x, a)') /\ ~MarkedBy(x, a)
      BY <2>5, <2>6 DEF ChangedBy, MarkedBy
    <3> QED
      BY <1>2, <3>1, CallStays
  <2>7. Effect(x, b)
    <3>1. row'[b].sync = "OK" => MarkedBy(x, b)'
      BY <1>2, <2>3, <2>5 DEF MarkedBy
    <3> QED
      BY <1>2, <1>3, <2>2, <3>1 DEF Effect
  <2> QED
    BY <2>6, <2>7
<1>4. CASE ~row[b].managed
  BY <1>2, <1>4, ReturnsEarly
<1> QED
  BY <1>3, <1>4

LEMMA MarkEffect ==
  ASSUME Typed, Typed', NEW x \in Users, CallInv(x), MarkPending(x)
  PROVE  \A a \in Apps : Effect(x, a)
<1> DEFINE b == usr[x].app
<1>1. /\ usr \in [Users -> Calls] /\ usr[x] \in Calls
      /\ row \in [Apps -> Rows]
  BY UserTypes
<1>2. b \in Apps /\ usr[x].pc = "markPending" /\ counter' = counter
  BY UserTypes DEF MarkPending
<1>3. CASE row[b].managed
  <2>1. usr'[x].todo = usr[x].todo
    BY <1>1, <1>3 DEF MarkPending, Goto, Calls
  <2>2. row' = [row EXCEPT ![b].sync = "PENDING",
                           ![b].pol = IF usr[x].bump THEN Bumped(@) ELSE @]
    BY <1>3 DEF MarkPending
  <2>3. ASSUME NEW a \in Apps, a # b PROVE Effect(x, a)
    <3>1. row'[a] = row[a]
      BY <1>1, <2>2, <2>3
    <3>2. (ChangedBy(x, a) => ChangedBy(x, a)') /\ ~MarkedBy(x, a)
      BY <2>1, <2>3 DEF ChangedBy, MarkedBy
    <3> QED
      BY <3>1, <3>2, CallStays
  <2>4. Effect(x, b)
    <3>1. Passed(b)
      BY <1>2 DEF Passed, CallInv
    <3>2. row[b] \in Rows
      BY <1>1, <1>2
    <3>3. row'[b].sync = "PENDING"
      BY <1>1, <1>2, <2>2, <3>2 DEF Rows
    <3>4. row'[b].pol = IF usr[x].bump THEN Bumped(row[b].pol) ELSE row[b].pol
      BY <1>1, <1>2, <2>2, <3>2 DEF Rows
    <3>5. Bumped(row[b].pol) = row[b].pol \/ Bumped(row[b].pol).ver > row[b].pol.ver
      <4>1. row[b].pol \in Versions
        BY <3>2 DEF Rows
      <4> QED
        BY <4>1 DEF Bumped, Versions
    <3>6. row'[b].pol = row[b].pol \/ row'[b].pol.ver > row[b].pol.ver
      <4>1. CASE usr[x].bump
        BY <3>4, <3>5, <4>1
      <4>2. CASE ~usr[x].bump
        BY <3>4, <4>2
      <4> QED
        BY <4>1, <4>2
    <3> QED
      BY <1>3, <3>1, <3>3, <3>6 DEF Effect
  <2> QED
    BY <2>3, <2>4
<1>4. CASE ~row[b].managed
  <2>1. row' = row
    BY <1>4 DEF MarkPending
  <2> QED
    BY <1>2, <1>4, <2>1, ReturnsEarly
<1> QED
  BY <1>3, <1>4

LEMMA NotifyEffect ==
  ASSUME Typed, Typed', NEW x \in Users, CallInv(x), NotifyPending(x)
  PROVE  \A a \in Apps : Effect(x, a)
<1>1. /\ usr \in [Users -> Calls] /\ usr[x] \in Calls
  BY UserTypes
<1>2. usr[x].pc = "notify" /\ row' = row
  BY DEF NotifyPending
<1>3. ASSUME NEW a \in Apps PROVE Effect(x, a)
  <2>1. ~MarkedBy(x, a) /\ (ChangedBy(x, a) => a \in usr[x].todo)
    BY <1>2 DEF MarkedBy, ChangedBy
  <2>2. CASE usr[x].todo = {}
    BY <1>2, <2>1, <2>2, CallStays
  <2>3. CASE usr[x].todo # {}
    <3>1. PICK b \in usr[x].todo :
            usr' = [usr EXCEPT ![x] = [usr[x] EXCEPT !.pc = usr[x].each, !.app = b,
                                                     !.todo = usr[x].todo \ {b}]]
      BY <2>3 DEF NotifyPending, Proceed
    <3>2. usr[x].each \in {"updated", "reset"}
      BY <1>1 DEF Calls
    <3>3. usr'[x] = [usr[x] EXCEPT !.pc = usr[x].each, !.app = b, !.todo = usr[x].todo \ {b}]
      BY <1>1, <3>1
    <3>4. /\ usr'[x].pc = usr[x].each /\ usr'[x].app = b
          /\ usr'[x].todo = usr[x].todo \ {b}
      BY <1>1, <3>3 DEF Calls
    <3>5. a \in usr[x].todo => ChangedBy(x, a)'
      BY <3>2, <3>4 DEF ChangedBy
    <3> QED
      BY <1>2, <2>1, <3>5, CallStays
  <2> QED
    BY <2>2, <2>3
<1> QED
  BY <1>3

LEMMA UserEffect ==
  ASSUME Guarded, Typed, Typed', NEW x \in Users, CallInv(x), UpdaterInv(Queue), User(x)
  PROVE  \A a \in Apps : Effect(x, a)
BY UserCases, BeginsEffect, SeveralEffect, StoresEffect, ResetsEffect, UpdatedEffect,
   MarkEffect, NotifyEffect

\* What was true of the applications and the job stays true.
LEMMA UserKeepsApps ==
  ASSUME Guarded, SInv, Typed', [Next]_vars, NEW x \in Users, User(x)
  PROVE  AppsInv'
<1>1. Typed /\ CallInv(x) /\ UpdaterInv(Queue)
  BY DEF SInv, IInv, KeptInv, CallsInv, Updaters
<1>2. \A a \in Apps : Effect(x, a)
  BY <1>1, UserEffect
<1>3. /\ upd' = upd /\ dev' = dev /\ job' = job
      /\ counter' \in Nat /\ counter <= counter'
      /\ \A y \in Users \ {x} : usr'[y] = usr[y]
      /\ job.pc = "persist" => counter' = counter
  BY <1>1, UserLeaves DEF job
<1>4. job.tx \in Nat /\ job.tx <= counter /\ counter \in Nat
  BY <1>1, UserTypes DEF UpdaterInv, job
<1>5. SUFFICES ASSUME NEW a \in Apps PROVE AppInv(a)' /\ (Working(a)' => JobInv(a)')
  BY DEF AppsInv
<1>6. AppInv(a) /\ (Working(a) => JobInv(a))
  BY DEF SInv, AppsInv
<1>7. Working(a)' => Working(a)
  BY <1>3 DEF Working
<1>8. row[a].managed /\ row[a].sync = "WILL_RESET" /\ row'[a].managed => row'[a].sync = "WILL_RESET"
  BY RequestStays DEF SInv
<1>9. CASE ~row'[a].managed
  <2>1. AppInv(a)'
    BY <1>9 DEF AppInv
  <2>2. Working(a) => JobInv(a)'
    BY <1>3, <1>4, <1>6, <1>9 DEF JobInv
  <2> QED
    BY <1>7, <2>1, <2>2
<1>10. CASE row'[a].managed
  <2>1. row[a].managed
    BY <1>2, <1>10 DEF Effect
  <2>2. /\ row[a].pol.ver \in Nat /\ row'[a].pol.ver \in Nat /\ dev[a].pol.ver \in Nat
        /\ job.pol.ver \in Nat
    BY <1>1, UserTypes DEF Typed, TypeOK, Rows, Versions, Devices, Jobs
  <2>3. \A p : p.ver \in Nat /\ Older(p, row[a].pol) => Older(p, row'[a].pol)
    <3>1. row'[a].pol = row[a].pol \/ row'[a].pol.ver > row[a].pol.ver
      BY <1>2, <1>10 DEF Effect
    <3> QED
      BY <2>2, <3>1 DEF Older
  <2>4. ChangedBy(x, a)' => Changing(a)'
    BY DEF Changing
  <2>5. MarkedBy(x, a)' => Marking(a)'
    BY DEF Marking
  <2>6. (ChangedBy(x, a) => ChangedBy(x, a)') => (Changing(a) => Changing(a)')
    BY <1>3 DEF Changing, ChangedBy
  <2>7. (MarkedBy(x, a) => MarkedBy(x, a)') => (Marking(a) => Marking(a)')
    BY <1>3 DEF Marking, MarkedBy
  <2>8. \/ Changing(a)'
        \/ Passed(a) /\ (row'[a].sync = "OK" => Marking(a)')
        \/ /\ row'[a] = row[a]
           /\ Changing(a) => Changing(a)'
           /\ Marking(a) => Marking(a)'
    BY <1>2, <1>10, <2>4, <2>5, <2>6, <2>7 DEF Effect
  <2>9. AppInv(a)'
    <3>1. row'[a].sync # "WILL_RESET" => Older(dev'[a].pol, row'[a].pol)
      BY <1>3, <1>6, <1>8, <1>10, <2>1, <2>2, <2>3 DEF AppInv
    <3>2. row'[a].sync = "OK" /\ ~Changing(a)' /\ ~Marking(a)' => InSync(a)'
      <4>1. row'[a].sync = "OK" /\ ~Changing(a)' /\ ~Marking(a)' =>
              row'[a] = row[a] /\ ~Changing(a) /\ ~Marking(a)
        BY <2>8
      <4> QED
        BY <1>3, <1>6, <2>1, <4>1 DEF AppInv, InSync
    <3> QED
      BY <3>1, <3>2 DEF AppInv
  <2>10. ASSUME Working(a) PROVE JobInv(a)'
    <3>1. JobInv(a) /\ job.app = a
      BY <1>6, <2>10 DEF Working
    <3>2. Passed(a) => job.tx < counter'
      BY <3>1 DEF Passed
    <3>3. job.tx = counter' => job.tx = counter
      BY <1>3, <1>4
    <3>4. Latest(a)' => row'[a] = row[a] /\ Latest(a)
      <4>1. SUFFICES ASSUME Latest(a)' PROVE row'[a] = row[a] /\ Latest(a)
        OBVIOUS
      <4>2. ~Changing(a)' /\ (job.tx = counter' \/ (row'[a].sync = "OK" /\ ~Marking(a)'))
        BY <1>3, <4>1 DEF Latest
      <4>3. ~(Passed(a) /\ (row'[a].sync = "OK" => Marking(a)'))
        BY <1>3, <1>4, <3>2, <4>2
      <4> QED
        BY <2>8, <3>3, <4>2, <4>3 DEF Latest
    <3>5. ~Changing(a)' /\ job.tx = counter' => row'[a] = row[a] /\ ~Changing(a) /\ job.tx = counter
      BY <1>3, <1>4, <2>8, <3>2, <3>3
    <3>6. job.tx = counter' => row'[a].sync = row[a].sync
      BY <1>2, <1>3, <1>4, <1>10, <3>2 DEF Effect
    <3> QED
      BY <1>3, <1>8, <1>10, <2>1, <2>2, <2>3, <3>1, <3>3, <3>4, <3>5, <3>6
      DEF JobInv, ReadIsStored, InSync
  <2> QED
    BY <1>7, <2>9, <2>10
<1> QED
  BY <1>9, <1>10

\* Operations other than these three remove no row.
LEMMA UserKeepsRows ==
  ASSUME Guarded, Typed, Typed', NEW x \in Users, CallInv(x), User(x),
         Ops \cap {"RemoveIdentity", "ResetApplication", "RemoveApplication"} = {},
         NEW a \in Apps, row[a].managed
  PROVE  row'[a].managed
<1>1. row \in [Apps -> Rows] /\ (usr[x].pc # "idle" => usr[x].app \in Apps)
  BY UserTypes
<1>2. ASSUME NEW b \in Apps, NEW g \in Groups, InstallMembership(x, b, g) \/ RemoveMembership(x, b, g)
      PROVE  row'[a].managed
  <2>1. PICK m : row' = [row EXCEPT ![b].mem = m]
    BY <1>2 DEF InstallMembership, RemoveMembership
  <2> QED
    BY <1>1, <2>1 DEF Rows
<1>3. ASSUME NEW b \in Apps, UpdateIdentity(x, b) PROVE row'[a].managed
  BY <1>1, <1>3 DEF UpdateIdentity, Rows
<1>4. ASSUME NEW g \in Groups, RemoveGroup(x, g) PROVE row'[a].managed
  BY <1>1, <1>4 DEF RemoveGroup, Rows
<1>5. ASSUME StorePolicy(x) PROVE row'[a].managed
  BY <1>1, <1>5 DEF StorePolicy, Rows
<1>6. ASSUME StoreManifest(x) PROVE row'[a].managed
  BY <1>1, <1>6 DEF StoreManifest, Rows
<1>7. ASSUME MarkPending(x) PROVE row'[a].managed
  BY <1>1, <1>7 DEF MarkPending, Rows
<1>8. ASSUME ResetHolder(x) PROVE row'[a].managed
  BY <1>1, <1>8 DEF ResetHolder, Rows
<1>9. /\ \A b \in Apps : ~ResetApplication(x, b) /\ ~RemoveApplication(x, b)
      /\ \A as \in SUBSET Apps : ~RemoveIdentity(x, as)
  BY DEF ResetApplication, RemoveApplication, RemoveIdentity, Starts
<1>10. ASSUME \/ \E b \in Apps : \/ \E p \in Policies : UpdatePolicy(x, b, p)
                                 \/ ResetUnmanaged(x, b)
              \/ ApplicationUpdated(x) \/ NotifyPending(x)
       PROVE  row' = row
  BY <1>10 DEF UpdatePolicy, ResetUnmanaged, ApplicationUpdated, NotifyPending
<1> QED
  BY UserCases, <1>2, <1>3, <1>4, <1>5, <1>6, <1>7, <1>8, <1>9, <1>10

\* The applications of a call that changes several of them stay there.
LEMMA TodoStays ==
  ASSUME Guarded, Typed, Typed', NEW x \in Users, CallInv(x), User(x),
         NEW y \in Users, CallInv(y), usr[y].todo # {}, usr[y].pc # "idle"
  PROVE  row'[usr[y].app].managed /\ \A a \in usr[y].todo : row'[a].managed
<1>1. Ops \cap {"RemoveIdentity", "ResetApplication", "RemoveApplication"} = {}
  BY DEF CallInv, Guarded
<1>2. row[usr[y].app].managed /\ \A a \in usr[y].todo : row[a].managed
  BY DEF CallInv
<1>3. usr[y].app \in Apps /\ usr[y].todo \subseteq Apps
  BY UserTypes DEF Calls
<1> QED
  BY <1>1, <1>2, <1>3, UserKeepsRows

LEMMA OtherCalls ==
  ASSUME Guarded, Typed, Typed', NEW x \in Users, CallInv(x), User(x), UpdaterInv(Queue),
         NEW y \in Users, CallInv(y), y # x
  PROVE  CallInv(y)'
<1>1. upd' = upd /\ counter' \in Nat /\ counter <= counter' /\ usr'[y] = usr[y]
  BY UserLeaves
<1>2. job' = job /\ job.tx \in Nat /\ counter \in Nat
  BY <1>1, UserTypes DEF job
<1>3. usr[y].pc # "storePolicy"
  BY DEF CallInv, Guarded
<1>4. usr[y].todo # {} => row'[usr[y].app].managed /\ \A a \in usr[y].todo : row'[a].managed
  BY TodoStays DEF CallInv
<1> QED
  BY <1>1, <1>2, <1>3, <1>4 DEF CallInv

\* A call that is to change one application only, or nothing more.
LEMMA SmallCall ==
  ASSUME NEW x \in Users, usr'[x].todo = {},
         usr'[x].pc \notin {"claimed", "unclaim", "storePolicy", "markPending"}
  PROVE  CallInv(x)'
BY DEF CallInv

LEMMA BegunCall ==
  ASSUME Guarded, Typed, Typed', NEW x \in Users, CallInv(x), NEW b \in Apps,
         \/ \E g \in Groups : InstallMembership(x, b, g) \/ RemoveMembership(x, b, g)
         \/ \E p \in Policies : UpdatePolicy(x, b, p)
         \/ UpdateIdentity(x, b)
         \/ ResetApplication(x, b)
         \/ ResetUnmanaged(x, b)
         \/ RemoveApplication(x, b)
  PROVE  CallInv(x)'
<1>1. /\ usr \in [Users -> Calls] /\ usr[x] \in Calls
      /\ row \in [Apps -> Rows]
  BY UserTypes
<1>2. CASE \E g \in Groups : InstallMembership(x, b, g) \/ RemoveMembership(x, b, g)
  <2>1. usr' = [usr EXCEPT ![x] = [Call(x, "updated", b) EXCEPT !.bump = TRUE]]
    BY <1>2 DEF InstallMembership, RemoveMembership, ThenUpdated
  <2>2. usr'[x].todo = {} /\ usr'[x].pc = "updated"
    BY <1>1, <2>1 DEF Call, NoCall
  <2> QED
    BY <2>2, SmallCall
<1>3. CASE \E p \in Policies : UpdatePolicy(x, b, p)
  <2>1. PICK p \in Policies :
          usr' = [usr EXCEPT ![x] = [Call(x, "storePolicy", b) EXCEPT
                                       !.pol = [ver |-> row[b].pol.ver + 1, val |-> p]]]
    BY <1>3 DEF UpdatePolicy
  <2>2. /\ usr'[x].todo = {} /\ usr'[x].pc = "storePolicy" /\ usr'[x].app = b
        /\ usr'[x].pol.ver = row[b].pol.ver + 1
    BY <1>1, <2>1 DEF Call, NoCall
  <2>3. row' = row /\ "UpdatePolicy" \in Ops
    BY <1>3 DEF UpdatePolicy, Starts
  <2>4. row[b].pol.ver \in Nat
    BY <1>1 DEF Rows, Versions
  <2> QED
    BY <2>2, <2>3, <2>4 DEF CallInv
<1>4. CASE UpdateIdentity(x, b)
  <2>1. usr' = [usr EXCEPT ![x] = [Call(x, "storeManifest", b) EXCEPT !.ser = serial]]
    BY <1>4 DEF UpdateIdentity
  <2>2. usr'[x].todo = {} /\ usr'[x].pc = "storeManifest"
    BY <1>1, <2>1 DEF Call, NoCall
  <2> QED
    BY <2>2, SmallCall
<1>5. CASE ResetApplication(x, b)
  <2>1. usr' = [usr EXCEPT ![x] = Call(x, "notify", b)]
    BY <1>5 DEF ResetApplication
  <2>2. usr'[x].todo = {} /\ usr'[x].pc = "notify"
    BY <1>1, <2>1 DEF Call, NoCall
  <2> QED
    BY <2>2, SmallCall
<1>6. CASE ResetUnmanaged(x, b) \/ RemoveApplication(x, b)
  <2>1. usr'[x] = usr[x] /\ usr[x].pc = "idle"
    BY <1>6 DEF ResetUnmanaged, RemoveApplication, Starts
  <2>2. usr[x].todo = {}
    BY <2>1 DEF CallInv
  <2> QED
    BY <2>1, <2>2, SmallCall
<1> QED
  BY <1>2, <1>3, <1>4, <1>5, <1>6

LEMMA SeveralCall ==
  ASSUME Typed, Typed', NEW x \in Users, CallInv(x),
         \/ \E g \in Groups : RemoveGroup(x, g)
         \/ \E as \in SUBSET Apps : RemoveIdentity(x, as)
  PROVE  CallInv(x)'
<1>1. /\ usr \in [Users -> Calls] /\ usr[x] \in Calls
      /\ row \in [Apps -> Rows]
  BY UserTypes
<1>2. Ops \cap {"RemoveGroup", "RemoveIdentity"} # {}
  BY DEF RemoveGroup, RemoveIdentity, Starts
<1>3. ASSUME NEW as \in SUBSET Apps, NEW op \in {"updated", "reset"}, ForEach(x, as, op),
             \A a \in as : row'[a].managed
      PROVE  CallInv(x)'
  <2>1. PICK b \in as :
          usr' = [usr EXCEPT ![x] = [Call(x, op, b) EXCEPT
                                       !.bump = TRUE, !.todo = as \ {b}, !.each = op]]
    BY <1>3 DEF ForEach
  <2>2. usr'[x].app = b /\ usr'[x].pc = op /\ usr'[x].todo = as \ {b}
    BY <1>1, <2>1 DEF Call, NoCall
  <2>3. as \ {b} # {} => ~OneApp
    BY DEF OneApp
  <2> QED
    BY <1>2, <1>3, <2>2, <2>3 DEF CallInv
<1>4. ASSUME NEW g \in Groups, RemoveGroup(x, g) PROVE CallInv(x)'
  <2> DEFINE members == {b \in Apps : row[b].managed /\ \E c \in row[b].mem : c.grp = g}
  <2>1. ForEach(x, members, "updated")
    BY <1>4 DEF RemoveGroup
  <2>2. ASSUME NEW a \in members PROVE row'[a].managed
    <3>1. row'[a] = [row[a] EXCEPT !.mem = {c \in row[a].mem : c.grp # g}]
      BY <1>4 DEF RemoveGroup
    <3> QED
      BY <1>1, <3>1 DEF Rows
  <2>3. members \in SUBSET Apps
    OBVIOUS
  <2> HIDE DEF members
  <2> QED
    BY <1>3, <2>1, <2>2, <2>3
<1>5. ASSUME NEW as \in SUBSET Apps, RemoveIdentity(x, as) PROVE CallInv(x)'
  <2>1. ASSUME NEW a \in as PROVE row'[a].managed
    <3>1. row'[a] = [row[a] EXCEPT !.id = 0] /\ row[a].managed /\ row[a] \in Rows
      BY <1>1, <1>5 DEF RemoveIdentity
    <3> QED
      BY <3>1 DEF Rows
  <2> QED
    BY <1>3, <1>5, <2>1 DEF RemoveIdentity
<1> QED
  BY <1>4, <1>5

\* A call that has another pc, and is otherwise the same.
LEMMA CallMoves ==
  ASSUME Guarded, Typed, Typed', NEW x \in Users, CallInv(x), User(x), usr[x].pc # "idle",
         NEW pc \in {"notify", "markPending"}, usr' = [usr EXCEPT ![x].pc = pc],
         pc = "markPending" => counter' > 0 /\ \A a : Passed(a),
         upd' = upd
  PROVE  CallInv(x)'
<1>1. usr \in [Users -> Calls] /\ usr[x] \in Calls
  BY UserTypes
<1>2. usr'[x] = [usr[x] EXCEPT !.pc = pc]
  BY <1>1
<1>3. usr'[x].app = usr[x].app /\ usr'[x].pc = pc /\ usr'[x].todo = usr[x].todo
  BY <1>1, <1>2 DEF Calls
<1>4. usr[x].todo # {} =>
        row'[usr[x].app].managed /\ \A a \in usr[x].todo : row'[a].managed
  BY TodoStays
<1>5. pc = "markPending" => counter' > 0 /\ (job'.app = usr[x].app => job'.tx < counter')
  BY DEF job, Passed
<1> QED
  BY <1>3, <1>4, <1>5 DEF CallInv

LEMMA GoneCall ==
  ASSUME Guarded, Typed, Typed', NEW x \in Users, CallInv(x), UpdaterInv(Queue),
         \/ StorePolicy(x) \/ StoreManifest(x) \/ ResetHolder(x)
         \/ ApplicationUpdated(x) \/ MarkPending(x) \/ NotifyPending(x),
         User(x)
  PROVE  CallInv(x)'
<1>1. /\ usr \in [Users -> Calls] /\ usr[x] \in Calls
  BY UserTypes
<1>2. upd' = upd
  BY UserLeaves
<1>3. NoCall.todo = {} /\ NoCall.pc = "idle"
  BY DEF NoCall
<1>4. ASSUME Return(x) PROVE CallInv(x)'
  <2>1. usr'[x] = NoCall
    BY <1>1, <1>4 DEF Return
  <2> QED
    BY <1>3, <2>1, SmallCall
<1>5. CASE StorePolicy(x) \/ StoreManifest(x)
  <2>1. \E v : usr' = [usr EXCEPT ![x] = [Call(x, "updated", usr[x].app) EXCEPT !.bump = v]]
    BY <1>5 DEF StorePolicy, StoreManifest, ThenUpdated
  <2>2. usr'[x].todo = {} /\ usr'[x].pc = "updated"
    BY <1>1, <2>1 DEF Call, NoCall
  <2> QED
    BY <2>2, SmallCall
<1>6. CASE ResetHolder(x)
  <2>1. usr[x].pc = "reset" /\ (Return(x) \/ Goto(x, "notify"))
    BY <1>6 DEF ResetHolder
  <2> QED
    BY <1>2, <1>4, <2>1, CallMoves DEF Goto
<1>7. CASE ApplicationUpdated(x)
  <2>1. /\ usr[x].pc = "updated"
        /\ \/ Return(x) \/ Goto(x, "notify")
           \/ Goto(x, "markPending") /\ counter' = counter + 1
    BY <1>7 DEF ApplicationUpdated
  <2>2. CASE Goto(x, "markPending") /\ counter' = counter + 1
    <3>1. counter' > 0 /\ \A a : Passed(a)
      BY <2>2, BumpPasses, UserTypes
    <3> QED
      BY <1>2, <2>1, <2>2, <3>1, CallMoves DEF Goto
  <2> QED
    BY <1>2, <1>4, <2>1, <2>2, CallMoves DEF Goto
<1>8. CASE MarkPending(x)
  <2>1. /\ usr[x].pc = "markPending"
        /\ Goto(x, "notify") \/ usr' = [usr EXCEPT ![x] = Call(x, "notify", usr[x].app)]
    BY <1>8 DEF MarkPending
  <2>2. CASE usr' = [usr EXCEPT ![x] = Call(x, "notify", usr[x].app)]
    <3>1. usr'[x].todo = {} /\ usr'[x].pc = "notify"
      BY <1>1, <2>2 DEF Call, NoCall
    <3> QED
      BY <3>1, SmallCall
  <2> QED
    BY <1>2, <2>1, <2>2, CallMoves DEF Goto
<1>9. CASE NotifyPending(x)
  <2>1. CASE Return(x)
    BY <1>4, <2>1
  <2>2. CASE ~Return(x)
    <3>1. PICK b \in usr[x].todo :
            usr' = [usr EXCEPT ![x] = [usr[x] EXCEPT !.pc = usr[x].each, !.app = b,
                                                     !.todo = usr[x].todo \ {b}]]
      BY <1>9, <2>2 DEF NotifyPending, Proceed
    <3>2. usr[x].each \in {"updated", "reset"}
      BY <1>1 DEF Calls
    <3>3. usr'[x] = [usr[x] EXCEPT !.pc = usr[x].each, !.app = b, !.todo = usr[x].todo \ {b}]
      BY <1>1, <3>1
    <3>4. /\ usr'[x].pc = usr[x].each /\ usr'[x].app = b
          /\ usr'[x].todo = usr[x].todo \ {b}
      BY <1>1, <3>3 DEF Calls
    <3>5. row' = row
      BY <1>9 DEF NotifyPending
    <3> QED
      BY <3>2, <3>4, <3>5 DEF CallInv
  <2> QED
    BY <2>1, <2>2
<1> QED
  BY <1>5, <1>6, <1>7, <1>8, <1>9

LEMMA UserKeepsCalls ==
  ASSUME Guarded, SInv, Typed', NEW x \in Users, User(x)
  PROVE  CallsInv'
<1>1. Typed /\ UpdaterInv(Queue) /\ \A y \in Users : CallInv(y)
  BY DEF SInv, IInv, KeptInv, CallsInv, Updaters
<1>2. CallInv(x)'
  BY <1>1, UserCases, BegunCall, SeveralCall, GoneCall
<1>3. \A y \in Users : y # x => CallInv(y)'
  BY <1>1, OtherCalls
<1> QED
  BY <1>2, <1>3 DEF CallsInv

LEMMA UserKeepsNoResets ==
  ASSUME Guarded, SInv, Typed', NEW x \in Users, User(x)
  PROVE  NoResets'
<1> DEFINE None == Ops \cap {"RemoveIdentity", "ResetApplication", "RemoveApplication"} = {}
<1>1. SUFFICES ASSUME None
               PROVE  /\ \A a \in Apps : ~Requested(a)'
                      /\ job'.sync \notin {"WILL_RESET", "RESET"}
                      /\ \A y \in Users : usr'[y].pc # "reset" /\ usr'[y].each # "reset"
  BY DEF NoResets
<1>2. /\ \A a \in Apps : ~Requested(a)
      /\ job.sync \notin {"WILL_RESET", "RESET"}
      /\ \A y \in Users : usr[y].pc # "reset" /\ usr[y].each # "reset"
  BY <1>1 DEF NoResets, SInv
<1>3. Typed /\ UpdaterInv(Queue) /\ CallInv(x) /\ UserInv(x)
  BY DEF SInv, IInv, KeptInv, CallsInv, Updaters
<1>4. ~Requesting(x) /\ \A as \in SUBSET Apps : ~RemoveIdentity(x, as)
  BY <1>1, <1>2 DEF Requesting, ResetHolder, ResetApplication, RemoveIdentity, Starts
<1>5. \A a \in Apps : ~Requested(a)'
  BY <1>2, <1>3, <1>4, UserKeeps DEF NoRequest
<1>6. job' = job /\ \A y \in Users \ {x} : usr'[y] = usr[y]
  BY <1>3, UserLeaves DEF job
<1>7. /\ usr \in [Users -> Calls] /\ usr[x] \in Calls
  BY <1>3, UserTypes
<1>8. usr'[x].pc # "reset" /\ usr'[x].each # "reset"
  <2>1. ASSUME NEW c, usr' = [usr EXCEPT ![x] = c], c.pc # "reset", c.each # "reset"
        PROVE  usr'[x].pc # "reset" /\ usr'[x].each # "reset"
    BY <1>7, <2>1
  <2>2. \A pc : pc # "reset" => [usr[x] EXCEPT !.pc = pc].pc # "reset" /\ [usr[x] EXCEPT !.pc = pc].each # "reset"
    BY <1>2, <1>7 DEF Calls
  <2>3. \A pc, b : /\ Call(x, pc, b).each # "reset" /\ Call(x, pc, b).pc = pc
                   /\ \A v : /\ [Call(x, pc, b) EXCEPT !.bump = v].each # "reset"
                             /\ [Call(x, pc, b) EXCEPT !.bump = v].pc = pc
                   /\ \A v : /\ [Call(x, pc, b) EXCEPT !.pol = v].each # "reset"
                             /\ [Call(x, pc, b) EXCEPT !.pol = v].pc = pc
                   /\ \A v : /\ [Call(x, pc, b) EXCEPT !.ser = v].each # "reset"
                             /\ [Call(x, pc, b) EXCEPT !.ser = v].pc = pc
    BY DEF Call, NoCall
  <2>4. NoCall.pc # "reset" /\ NoCall.each # "reset"
    BY DEF NoCall
  <2>5. ASSUME Return(x) PROVE usr'[x].pc # "reset" /\ usr'[x].each # "reset"
    BY <1>7, <2>4, <2>5 DEF Return
  <2>6. ASSUME NEW pc, Goto(x, pc), pc # "reset" PROVE usr'[x].pc # "reset" /\ usr'[x].each # "reset"
    <3>1. usr'[x] = [usr[x] EXCEPT !.pc = pc]
      BY <1>7, <2>6 DEF Goto
    <3> QED
      BY <2>2, <2>6, <3>1
  <2>7. ASSUME NEW b, NEW v, ThenUpdated(x, b, v)
        PROVE  usr'[x].pc # "reset" /\ usr'[x].each # "reset"
    <3>1. usr'[x] = [Call(x, "updated", b) EXCEPT !.bump = v]
      BY <1>7, <2>7 DEF ThenUpdated
    <3> QED
      BY <2>3, <3>1
  <2>8. ASSUME NEW b \in Apps, NEW g \in Groups, InstallMembership(x, b, g) \/ RemoveMembership(x, b, g)
        PROVE  usr'[x].pc # "reset" /\ usr'[x].each # "reset"
    BY <2>7, <2>8 DEF InstallMembership, RemoveMembership
  <2>9. ASSUME NEW b \in Apps, NEW p \in Policies, UpdatePolicy(x, b, p)
        PROVE  usr'[x].pc # "reset" /\ usr'[x].each # "reset"
    <3>1. \E v : usr' = [usr EXCEPT ![x] = [Call(x, "storePolicy", b) EXCEPT !.pol = v]]
      BY <2>9 DEF UpdatePolicy
    <3>2. \E v : usr'[x] = [Call(x, "storePolicy", b) EXCEPT !.pol = v]
      BY <1>7, <3>1
    <3> QED
      BY <2>3, <3>2
  <2>10. ASSUME NEW b \in Apps, UpdateIdentity(x, b)
        PROVE  usr'[x].pc # "reset" /\ usr'[x].each # "reset"
    <3>1. \E v : usr' = [usr EXCEPT ![x] = [Call(x, "storeManifest", b) EXCEPT !.ser = v]]
      BY <2>10 DEF UpdateIdentity
    <3>2. \E v : usr'[x] = [Call(x, "storeManifest", b) EXCEPT !.ser = v]
      BY <1>7, <3>1
    <3> QED
      BY <2>3, <3>2
  <2>11. ASSUME NEW b \in Apps, ResetUnmanaged(x, b) \/ RemoveApplication(x, b)
        PROVE  usr'[x].pc # "reset" /\ usr'[x].each # "reset"
    BY <1>2, <2>11 DEF ResetUnmanaged, RemoveApplication
  <2>12. ASSUME NEW g \in Groups, RemoveGroup(x, g)
        PROVE  usr'[x].pc # "reset" /\ usr'[x].each # "reset"
    <3>1. PICK as \in SUBSET Apps : ForEach(x, as, "updated")
      BY <2>12 DEF RemoveGroup
    <3>2. PICK b \in as :
            usr' = [usr EXCEPT ![x] = [Call(x, "updated", b) EXCEPT
                                       !.bump = TRUE, !.todo = as \ {b}, !.each = "updated"]]
      BY <3>1 DEF ForEach
    <3>3. usr'[x].pc = "updated" /\ usr'[x].each = "updated"
      BY <1>7, <3>2 DEF Call, NoCall
    <3> QED
      BY <3>3
  <2>13. ASSUME StorePolicy(x) \/ StoreManifest(x)
        PROVE  usr'[x].pc # "reset" /\ usr'[x].each # "reset"
    BY <2>7, <2>13 DEF StorePolicy, StoreManifest
  <2>14. ASSUME ApplicationUpdated(x) PROVE usr'[x].pc # "reset" /\ usr'[x].each # "reset"
    BY <2>5, <2>6, <2>14 DEF ApplicationUpdated
  <2>15. ASSUME MarkPending(x) PROVE usr'[x].pc # "reset" /\ usr'[x].each # "reset"
    BY <2>1, <2>3, <2>6, <2>15 DEF MarkPending
  <2>16. ASSUME NotifyPending(x) PROVE usr'[x].pc # "reset" /\ usr'[x].each # "reset"
    <3>1. CASE Return(x)
      BY <2>5, <3>1
    <3>2. CASE ~Return(x)
      <4>1. PICK b \in usr[x].todo :
              usr' = [usr EXCEPT ![x] = [usr[x] EXCEPT !.pc = usr[x].each, !.app = b,
                                                     !.todo = usr[x].todo \ {b}]]
        BY <2>16, <3>2 DEF NotifyPending, Proceed
      <4>2. usr'[x] = [usr[x] EXCEPT !.pc = usr[x].each, !.app = b, !.todo = usr[x].todo \ {b}]
        BY <1>7, <4>1
      <4>3. usr'[x].pc = usr[x].each /\ usr'[x].each = usr[x].each
        BY <1>7, <4>2 DEF Calls
      <4> QED
        BY <1>2, <4>3
    <3> QED
      BY <3>1, <3>2
  <2> QED
    BY <1>3, <1>4, UserCases, <2>8, <2>9, <2>10, <2>11, <2>12, <2>13, <2>14, <2>15, <2>16
    DEF Requesting
<1> QED
  BY <1>2, <1>5, <1>6, <1>8

------------------------------------------------------------------------------
(* The steps of the queue's thread *)

\* What such a step leaves alone, and does to rows and to the job.
Turn ==
  /\ usr' = usr /\ counter' = counter
  /\ \A a \in Apps : row'[a].pol = row[a].pol \/ row'[a].pol.ver = 0
  /\ \A a \in Apps : row[a].managed /\ ~row'[a].managed => job.sync = "RESET"
  /\ \/ job'.app = job.app /\ job'.tx = job.tx
     \/ job'.tx = 0
     \/ lock = Nobody
  /\ job'.sync \in {"WILL_RESET", "RESET"} =>
       job.sync \in {"WILL_RESET", "RESET"} \/ \E a \in Apps : Requested(a)

LEMMA JobTypes2 ==
  ASSUME Typed
  PROVE  /\ upd \in [Updaters -> Jobs] /\ Queue \in Updaters
         /\ \A r : upd' = [upd EXCEPT ![Queue] = r] => job' = r
         /\ job \in Jobs /\ job.tx \in Nat /\ counter \in Nat
         /\ job.pc # "idle" => job.app \in Apps
         /\ row \in [Apps -> Rows] /\ dev \in [Apps -> Devices]
         /\ \A a \in Apps : row[a] \in Rows /\ dev[a] \in Devices
BY DEF Typed, TypeOK, WorkInv, Updaters, job, Jobs

LEMMA ReportFields ==
  ASSUME NEW j, NEW s
  PROVE  /\ Report(j, s).pc = "report" /\ Report(j, s).app = j.app
         /\ Report(j, s).sync = s /\ Report(j, s).tx = j.tx
BY DEF Report, Job, NoJob

LEMMA IdleFields ==
  /\ NoJob.pc = "idle" /\ NoJob.tx = 0 /\ NoJob.sync = "OK"
  /\ \A a, b, s : Job(a, b, s).pc = "start" /\ Job(a, b, s).tx = 0 /\ Job(a, b, s).sync = "OK"
BY DEF NoJob, Job

\* Applications that the step does not touch.
LEMMA AppFrame ==
  ASSUME usr' = usr, counter' = counter, NEW a \in Apps, AppInv(a), row'[a] = row[a],
         dev'[a].id = dev[a].id, dev'[a].mem = dev[a].mem, dev'[a].pol = dev[a].pol
  PROVE  AppInv(a)'
BY DEF AppInv, Changing, ChangedBy, Marking, MarkedBy, InSync

\* A step that looks at the storage, or is about the job alone.
LEMMA JobMoves ==
  ASSUME SInv, usr' = usr, counter' = counter, row' = row, dev' = dev,
         \A a \in Apps : Working(a)' => JobInv(a)'
  PROVE  AppsInv'
<1>1. \A a \in Apps : AppInv(a)
  BY DEF SInv, AppsInv
<1> QED
  BY <1>1, AppFrame DEF AppsInv

LEMMA EndsJob ==
  ASSUME SInv, usr' = usr, counter' = counter, row' = row, dev' = dev,
         job'.pc \in {"idle", "start"}, job'.tx = 0, job'.sync = "OK"
  PROVE  AppsInv' /\ Turn
<1>1. \A a \in Apps : ~Working(a)'
  BY DEF Working
<1> QED
  BY <1>1, JobMoves DEF Turn

LEMMA TakeEventKeeps ==
  ASSUME SInv, TakeEvent
  PROVE  AppsInv' /\ Turn
<1>1. job'.pc \in {"idle", "start"} /\ job'.tx = 0 /\ job'.sync = "OK"
  <2>1. Typed
    BY DEF SInv, IInv
  <2>2. \E r : /\ upd' = [upd EXCEPT ![Queue] = r]
               /\ r = NoJob \/ \E a, b, s : r = Job(a, b, s)
    BY DEF TakeEvent, Step
  <2>3. job' = NoJob \/ \E a, b, s : job' = Job(a, b, s)
    BY <2>1, <2>2, JobTypes2
  <2> QED
    BY <2>3, IdleFields
<1> QED
  BY <1>1, EndsJob DEF TakeEvent

\* A job that has just been told the state of the application.
LEMMA RoundKeeps ==
  ASSUME SInv, usr' = usr, counter' = counter, row' = row, dev' = dev,
         job.pc # "idle", lock = Nobody, row[job.app].managed,
         job' = NewRound(job)
  PROVE  AppsInv' /\ Turn
<1> DEFINE s == row[job.app].sync
           j == [job EXCEPT !.sync = s, !.tx = counter]
<1>1. Typed /\ job \in Jobs /\ job.app \in Apps
  BY JobTypes2 DEF SInv, IInv
<1>2. s \in SyncStates
  BY <1>1, JobTypes2 DEF Rows
<1>3. j.app = job.app /\ j.sync = s /\ j.tx = counter
  BY <1>1 DEF Jobs
<1>4. \A pc : /\ [j EXCEPT !.pc = pc].app = job.app /\ [j EXCEPT !.pc = pc].sync = s
              /\ [j EXCEPT !.pc = pc].tx = counter /\ [j EXCEPT !.pc = pc].pc = pc
  BY <1>1 DEF Jobs
<1> HIDE DEF j
<1>5. job' = Round(j)
  BY DEF NewRound, j
<1>6. \/ job' = NoJob
      \/ job' = Report(j, "RESET") /\ s = "WILL_RESET"
      \/ job' = [j EXCEPT !.pc = "connect"] /\ s = "WILL_RESET"
      \/ job' = [j EXCEPT !.pc = "readMemberships"] /\ s # "WILL_RESET"
  BY <1>3, <1>5 DEF Round
<1>7. CASE job' = NoJob
  BY <1>7, IdleFields, EndsJob
<1>8. CASE job' = Report(j, "RESET") /\ s = "WILL_RESET"
  <2>1. job'.pc = "report" /\ job'.app = job.app /\ job'.sync = "RESET"
    BY <1>3, <1>8, ReportFields
  <2>2. \A a \in Apps : Working(a)' => JobInv(a)'
    BY <2>1 DEF JobInv, ReadIsStored, HasMem, HasId, HasPol
  <2>3. Turn
    BY <1>1, <1>8 DEF Turn, Requested
  <2> QED
    BY <2>2, <2>3, JobMoves
<1>9. CASE job' = [j EXCEPT !.pc = "connect"] /\ s = "WILL_RESET"
  <2>1. job'.pc = "connect" /\ job'.app = job.app /\ job'.sync = "WILL_RESET"
    BY <1>4, <1>9
  <2>2. \A a \in Apps : Working(a)' => JobInv(a)'
    BY <1>9, <2>1 DEF JobInv, Working
  <2>3. Turn
    BY <1>1, <1>9 DEF Turn, Requested
  <2> QED
    BY <2>2, <2>3, JobMoves
<1>10. CASE job' = [j EXCEPT !.pc = "readMemberships"] /\ s # "WILL_RESET"
  <2>1. job'.pc = "readMemberships" /\ job'.app = job.app /\ job'.sync = s
    BY <1>4, <1>10
  <2>2. \A a \in Apps : Working(a)' => JobInv(a)'
    BY <1>10, <2>1 DEF JobInv, Working, ReadIsStored, HasMem, HasId, HasPol
  <2>3. Turn
    BY <1>2, <1>10, <2>1 DEF Turn, SyncStates
  <2> QED
    BY <2>2, <2>3, JobMoves
<1> QED
  BY <1>6, <1>7, <1>8, <1>9, <1>10

LEMMA StartKeeps ==
  ASSUME SInv, StartUpdates(Queue) \/ CompletedRestart(Queue)
  PROVE  AppsInv' /\ Turn
<1>1. Typed /\ job.pc # "idle"
  BY DEF SInv, IInv, StartUpdates, CompletedRestart, job
<1>2. lock = Nobody
  BY DEF StartUpdates, CompletedRestart, Locked
<1>3. \/ row[job.app].managed /\ upd' = [upd EXCEPT ![Queue] = NewRound(job)]
      \/ upd' = [upd EXCEPT ![Queue] = NoJob]
  BY DEF StartUpdates, CompletedRestart, Step, job
<1>4. usr' = usr /\ counter' = counter /\ row' = row /\ dev' = dev
  BY DEF StartUpdates, CompletedRestart
<1>5. CASE row[job.app].managed /\ upd' = [upd EXCEPT ![Queue] = NewRound(job)]
  BY <1>1, <1>2, <1>4, <1>5, JobTypes2, RoundKeeps
<1>6. CASE upd' = [upd EXCEPT ![Queue] = NoJob]
  BY <1>1, <1>4, <1>6, JobTypes2, EndsJob, IdleFields
<1> QED
  BY <1>3, <1>5, <1>6

\* A job that has read one thing more: at a pc at which it has read the others.
LEMMA ReadsKeep ==
  ASSUME SInv, ReadMemberships(Queue) \/ ReadIdentity(Queue) \/ ReadManifest(Queue) \/ ReadPolicy(Queue)
  PROVE  AppsInv' /\ Turn
<1> DEFINE a == job.app
<1>1. Typed /\ UpdaterInv(Queue)
  BY DEF SInv, IInv, KeptInv, Updaters
<1>2. /\ job.pc \in {"readMemberships", "readIdentity", "readManifest", "readPolicy"}
      /\ usr' = usr /\ counter' = counter /\ row' = row /\ dev' = dev
  BY DEF ReadMemberships, ReadIdentity, ReadManifest, ReadPolicy, job
<1>3. job \in Jobs /\ a \in Apps /\ job.sync # "WILL_RESET"
  BY <1>1, <1>2, JobTypes2 DEF UpdaterInv, Updating, job
<1>4. JobInv(a)
  BY <1>2, <1>3 DEF SInv, AppsInv, Working
<1>5. ASSUME job'.app = a, job'.sync = job.sync, job'.tx = job.tx,
             job'.pc \in {"readIdentity", "readManifest", "readPolicy", "connect"},
             Latest(a) => ReadIsStored(a)',
             row[a].managed /\ job'.pc = "connect" => Older(job'.pol, row[a].pol)
      PROVE  AppsInv' /\ Turn
  <2>1. Latest(a)' => Latest(a)
    BY <1>2, <1>5 DEF Latest, Changing, ChangedBy, Marking, MarkedBy
  <2>2. JobInv(a)'
    BY <1>2, <1>3, <1>4, <1>5, <2>1 DEF JobInv, HasPol
  <2>3. \A b \in Apps : Working(b)' => JobInv(b)'
    BY <1>5, <2>2 DEF Working
  <2>4. Turn
    BY <1>2, <1>5 DEF Turn
  <2> QED
    BY <1>2, <2>3, <2>4, JobMoves
<1>6. CASE ReadMemberships(Queue)
  <2>1. job' = [job EXCEPT !.pc = "readIdentity", !.mem = row[a].mem]
    BY <1>1, <1>6, JobTypes2 DEF ReadMemberships, Step, job
  <2>2. /\ job'.app = a /\ job'.sync = job.sync /\ job'.tx = job.tx
        /\ job'.pc = "readIdentity" /\ job'.mem = row[a].mem
    BY <1>3, <2>1 DEF Jobs
  <2>3. ReadIsStored(a)'
    BY <1>2, <2>2 DEF ReadIsStored, HasMem, HasId, HasPol
  <2> QED
    BY <1>5, <2>2, <2>3
<1>7. CASE ReadIdentity(Queue)
  <2>1. \/ job' = NoJob
        \/ job' = [job EXCEPT !.pc = "readManifest", !.id = row[a].id]
    BY <1>1, <1>7, JobTypes2 DEF ReadIdentity, Step, job
  <2>2. CASE job' = NoJob
    BY <1>2, <2>2, EndsJob, IdleFields
  <2>3. CASE job' = [job EXCEPT !.pc = "readManifest", !.id = row[a].id]
    <3>1. /\ job'.app = a /\ job'.sync = job.sync /\ job'.tx = job.tx
          /\ job'.pc = "readManifest" /\ job'.mem = job.mem /\ job'.id = row[a].id
      BY <1>3, <2>3 DEF Jobs
    <3>2. job.pc = "readIdentity" /\ row[a].managed
      <4>1. job.pc = "readIdentity"
        BY <1>7 DEF ReadIdentity, job
      <4>2. CASE ~row[a].managed
        <5>1. job' = NoJob
          BY <1>1, <1>7, <4>2, JobTypes2 DEF ReadIdentity, Step, job
        <5> QED
          BY <3>1, <5>1, IdleFields
      <4> QED
        BY <4>1, <4>2
    <3>3. Latest(a) => job.mem = row[a].mem
      BY <1>3, <1>4, <3>2 DEF JobInv, ReadIsStored, HasMem
    <3>4. Latest(a) => ReadIsStored(a)'
      BY <1>2, <3>1, <3>3 DEF ReadIsStored, HasMem, HasId, HasPol
    <3> QED
      BY <1>5, <3>1, <3>4
  <2> QED
    BY <2>1, <2>2, <2>3
<1>8. CASE ReadManifest(Queue)
  <2>1. \/ job' = NoJob
        \/ row[a].managed /\ job' = [job EXCEPT !.pc = "readPolicy", !.mf = row[a].mf]
    BY <1>1, <1>8, JobTypes2 DEF ReadManifest, Step, job
  <2>2. CASE job' = NoJob
    BY <1>2, <2>2, EndsJob, IdleFields
  <2>3. CASE row[a].managed /\ job' = [job EXCEPT !.pc = "readPolicy", !.mf = row[a].mf]
    <3>1. /\ job'.app = a /\ job'.sync = job.sync /\ job'.tx = job.tx
          /\ job'.pc = "readPolicy" /\ job'.mem = job.mem /\ job'.id = job.id
      BY <1>3, <2>3 DEF Jobs
    <3>2. job.pc = "readManifest"
      BY <1>8 DEF ReadManifest, job
    <3>3. Latest(a) => job.mem = row[a].mem /\ job.id = row[a].id
      BY <1>3, <1>4, <2>3, <3>2 DEF JobInv, ReadIsStored, HasMem, HasId
    <3>4. Latest(a) => ReadIsStored(a)'
      BY <1>2, <3>1, <3>3 DEF ReadIsStored, HasMem, HasId, HasPol
    <3> QED
      BY <1>5, <3>1, <3>4
  <2> QED
    BY <2>1, <2>2, <2>3
<1>9. CASE ReadPolicy(Queue)
  <2>1. job' = [job EXCEPT !.pc = "connect", !.pol = row[a].pol]
    BY <1>1, <1>9, JobTypes2 DEF ReadPolicy, Step, job
  <2>2. /\ job'.app = a /\ job'.sync = job.sync /\ job'.tx = job.tx
        /\ job'.pc = "connect" /\ job'.mem = job.mem /\ job'.id = job.id
        /\ job'.pol = row[a].pol
    BY <1>3, <2>1 DEF Jobs
  <2>3. job.pc = "readPolicy"
    BY <1>9 DEF ReadPolicy, job
  <2>4. row[a].managed /\ Latest(a) => job.mem = row[a].mem /\ job.id = row[a].id
    BY <1>3, <1>4, <2>3 DEF JobInv, ReadIsStored, HasMem, HasId
  <2>5. row[a].managed /\ Latest(a) => ReadIsStored(a)'
    BY <1>2, <2>2, <2>4 DEF ReadIsStored, HasMem, HasId, HasPol
  <2>6. row[a].pol.ver \in Nat
    BY <1>1, <1>3, JobTypes2 DEF Rows, Versions
  <2>7. Older(job'.pol, row[a].pol)
    BY <2>2, <2>6 DEF Older
  <2>8. CASE row[a].managed
    BY <1>5, <2>2, <2>5, <2>7, <2>8
  <2>9. CASE ~row[a].managed
    <3>1. \A b \in Apps : Working(b)' => JobInv(b)'
      BY <1>2, <2>2, <2>9 DEF Working, JobInv
    <3>2. Turn
      BY <1>2, <2>2 DEF Turn
    <3> QED
      BY <1>2, <3>1, <3>2, JobMoves
  <2> QED
    BY <2>8, <2>9
<1> QED
  BY <1>6, <1>7, <1>8, <1>9

LEMMA ConnectKeeps ==
  ASSUME SInv, Connect(Queue) \/ ConnectFails(Queue)
  PROVE  AppsInv' /\ Turn
<1> DEFINE a == job.app
<1>1. Typed /\ UpdaterInv(Queue)
  BY DEF SInv, IInv, KeptInv, Updaters
<1>2. /\ job.pc = "connect"
      /\ usr' = usr /\ counter' = counter /\ row' = row /\ dev' = dev
  BY DEF Connect, ConnectFails, job
<1>3. job \in Jobs /\ a \in Apps
  BY <1>1, <1>2, JobTypes2
<1>4. JobInv(a)
  BY <1>2, <1>3 DEF SInv, AppsInv, Working
<1>5. CASE Connect(Queue)
  <2>1. PICK pc \in {"reset", "memberships"} :
          /\ job' = [job EXCEPT !.pc = pc]
          /\ pc = "reset" <=> job.sync = "WILL_RESET"
    <3> DEFINE p == IF job.sync = "WILL_RESET" THEN "reset" ELSE "memberships"
    <3>1. job' = [job EXCEPT !.pc = p]
      BY <1>1, <1>5, JobTypes2 DEF Connect, Step, job
    <3> QED
      BY <3>1
  <2>2. /\ job'.app = a /\ job'.sync = job.sync /\ job'.tx = job.tx /\ job'.pc = pc
        /\ job'.mem = job.mem /\ job'.id = job.id /\ job'.pol = job.pol
    BY <1>3, <2>1 DEF Jobs
  <2>3. Latest(a)' => Latest(a)
    BY <1>2, <2>2 DEF Latest, Changing, ChangedBy, Marking, MarkedBy
  <2>4. ReadIsStored(a) => ReadIsStored(a)'
    BY <1>2, <2>2 DEF ReadIsStored, HasMem, HasId, HasPol
  <2>5. JobInv(a)'
    BY <1>2, <1>4, <2>1, <2>2, <2>3, <2>4 DEF JobInv, HasPol
  <2>6. \A b \in Apps : Working(b)' => JobInv(b)'
    BY <2>2, <2>5 DEF Working
  <2>7. Turn
    BY <1>2, <2>2 DEF Turn
  <2> QED
    BY <1>2, <2>6, <2>7, JobMoves
<1>6. CASE ConnectFails(Queue)
  <2>1. \/ job' = NoJob
        \/ job' = Report(job, job.sync) /\ job.sync = "WILL_RESET"
    <3>1. job' = IF job.sync = "WILL_RESET" THEN Report(job, job.sync) ELSE NoJob
      BY <1>1, <1>6, JobTypes2 DEF ConnectFails, Step, job
    <3> QED
      BY <3>1
  <2>2. CASE job' = NoJob
    BY <1>2, <2>2, EndsJob, IdleFields
  <2>3. CASE job' = Report(job, job.sync) /\ job.sync = "WILL_RESET"
    <3>1. job'.pc = "report" /\ job'.app = a /\ job'.sync = "WILL_RESET" /\ job'.tx = job.tx
      BY <2>3, ReportFields
    <3>2. JobInv(a)'
      BY <1>2, <1>4, <2>3, <3>1 DEF JobInv
    <3>3. \A b \in Apps : Working(b)' => JobInv(b)'
      BY <3>1, <3>2 DEF Working
    <3>4. Turn
      BY <1>2, <2>3, <3>1 DEF Turn
    <3> QED
      BY <1>2, <3>3, <3>4, JobMoves
  <2> QED
    BY <2>1, <2>2, <2>3
<1> QED
  BY <1>5, <1>6

------------------------------------------------------------------------------
(* Calls of the remote application *)

\* The application after a call of an update, if it was carried out.
Updates(a, d) ==
  LET old == dev[a] IN
  \/ job.pc = "memberships" /\ \E c \in job.mem \ old.mem : d = [old EXCEPT !.mem = @ \cup {c}]
  \/ job.pc = "memberships" /\ \E c \in old.mem \ job.mem : d = [old EXCEPT !.mem = @ \ {c}]
  \/ job.pc = "identity" /\ old.id # job.id /\ d = [old EXCEPT !.id = job.id, !.state = "CLAIMED"]
  \/ job.pc = "policy" /\ job.pol.ver # old.pol.ver /\ d = [old EXCEPT !.pol = job.pol]

\* An update never makes an application differ from a row that is not changing.
LEMMA UpdateKeepsApp ==
  ASSUME SInv, usr' = usr, counter' = counter, row' = row,
         NEW a \in Apps, job.app = a, job.pc \in {"memberships", "identity", "policy"},
         NEW d, d = dev[a] \/ Updates(a, d),
         dev' = [dev EXCEPT ![a] = d]
  PROVE  \A b \in Apps : AppInv(b)'
<1>1. Typed /\ UpdaterInv(Queue)
  BY DEF SInv, IInv, KeptInv, Updaters
<1>2. /\ dev \in [Apps -> Devices] /\ dev[a] \in Devices /\ row[a] \in Rows /\ job \in Jobs
  BY <1>1, JobTypes2
<1>3. job.sync # "WILL_RESET"
  BY <1>1 DEF UpdaterInv, Updating, job
<1>4. JobInv(a) /\ \A b \in Apps : AppInv(b)
  BY DEF SInv, AppsInv, Working
<1>5. ASSUME NEW b \in Apps, b # a PROVE AppInv(b)'
  BY <1>2, <1>4, <1>5, AppFrame
<1>6. AppInv(a)'
  <2>1. SUFFICES ASSUME row[a].managed, row[a].sync # "WILL_RESET" PROVE AppInv(a)'
    BY DEF AppInv
  <2>2. dev'[a] = d
    BY <1>2
  <2>3. d.pol = dev[a].pol \/ (job.pc = "policy" /\ d.pol = job.pol)
    BY <1>2 DEF Updates, Devices
  <2>4. Older(d.pol, row[a].pol)
    BY <1>3, <1>4, <2>1, <2>3 DEF AppInv, JobInv, HasPol
  <2>5. ASSUME row[a].sync = "OK", ~Changing(a), ~Marking(a)
        PROVE  d.id = row[a].id /\ d.mem = row[a].mem /\ d.pol = row[a].pol
    <3>1. InSync(a)
      BY <1>4, <2>1, <2>5 DEF AppInv
    <3>2. Latest(a)
      BY <2>5 DEF Latest
    <3>3. job.mem = row[a].mem /\ job.id = row[a].id /\ job.pol = row[a].pol
      BY <1>3, <1>4, <2>1, <3>2 DEF JobInv, ReadIsStored, HasMem, HasId, HasPol
    <3>4. d = dev[a]
      BY <3>1, <3>3 DEF Updates, InSync
    <3> QED
      BY <3>1, <3>4 DEF InSync
  <2>6. row'[a] = row[a]
    OBVIOUS
  <2>7. Changing(a)' = Changing(a) /\ Marking(a)' = Marking(a)
    BY DEF Changing, ChangedBy, Marking, MarkedBy
  <2> QED
    BY <2>2, <2>4, <2>5, <2>6, <2>7 DEF AppInv, InSync
<1> QED
  BY <1>5, <1>6

\* The job after a failed call, or a call that was refused.
LEMMA GiveUpKeeps ==
  ASSUME SInv, usr' = usr, counter' = counter, row' = row,
         NEW a \in Apps, job.app = a, job.pc \in {"reset", "memberships", "identity", "policy"},
         \A b \in Apps : AppInv(b)',
         job' = Report(job, job.sync)
  PROVE  AppsInv' /\ Turn
<1>1. job'.pc = "report" /\ job'.app = a /\ job'.sync = job.sync /\ job'.tx = job.tx
  BY ReportFields
<1>2. JobInv(a)
  BY DEF SInv, AppsInv, Working
<1>3. ASSUME row[a].managed, job.sync = "OK", ~Changing(a), job.tx = counter
      PROVE  InSync(a)'
  <2>1. row[a].sync = "OK"
    BY <1>2, <1>3 DEF JobInv
  <2>2. ~Marking(a)
    <3>1. SUFFICES ASSUME NEW x \in Users, MarkedBy(x, a) PROVE FALSE
      BY DEF Marking
    <3>2. job.tx < counter
      BY <3>1 DEF SInv, CallsInv, CallInv, MarkedBy
    <3>3. job.tx \in Nat
      BY JobTypes2 DEF SInv, IInv
    <3> QED
      BY <1>3, <3>2, <3>3
  <2>3. AppInv(a)' /\ row'[a] = row[a]
    OBVIOUS
  <2>4. Changing(a)' = Changing(a) /\ Marking(a)' = Marking(a)
    BY DEF Changing, ChangedBy, Marking, MarkedBy
  <2> QED
    BY <1>3, <2>1, <2>2, <2>3, <2>4 DEF AppInv
<1>4. Changing(a)' = Changing(a)
  BY DEF Changing, ChangedBy
<1>5. JobInv(a)'
  BY <1>1, <1>2, <1>3, <1>4 DEF JobInv, ReadIsStored, HasMem, HasId, HasPol
<1>6. \A b \in Apps : Working(b)' => JobInv(b)'
  BY <1>1, <1>5 DEF Working
<1>7. Turn
  BY <1>1 DEF Turn
<1> QED
  BY <1>6, <1>7 DEF AppsInv

LEMMA RemoteOutcome ==
  ASSUME SInv, NEW a \in Apps, job.app = a, job.pc \in {"memberships", "identity", "policy"},
         NEW d, d = dev[a] \/ Updates(a, d), NEW r, RemoteCall(Queue, d, r)
  PROVE  \/ AppsInv' /\ Turn
         \/ /\ usr' = usr /\ counter' = counter /\ row' = row
            /\ dev' = [dev EXCEPT ![a] = d] /\ job' = r
            /\ \A b \in Apps : AppInv(b)'
<1>1. Typed
  BY DEF SInv, IInv
<1>2. usr' = usr /\ counter' = counter /\ row' = row
  BY DEF RemoteCall
<1>3. \/ dev' = [dev EXCEPT ![a] = d] /\ upd' = [upd EXCEPT ![Queue] = r]
      \/ GiveUp(Queue) /\ dev' \in {dev, [dev EXCEPT ![a] = d]}
  BY DEF RemoteCall, Step, job
<1>4. dev = [dev EXCEPT ![a] = dev[a]]
  BY <1>1, JobTypes2
<1>5. CASE dev' = [dev EXCEPT ![a] = d] /\ upd' = [upd EXCEPT ![Queue] = r]
  BY <1>1, <1>2, <1>5, JobTypes2, UpdateKeepsApp
<1>6. CASE GiveUp(Queue) /\ dev' \in {dev, [dev EXCEPT ![a] = d]}
  <2>1. job' = Report(job, job.sync)
    BY <1>1, <1>6, JobTypes2 DEF GiveUp, Step, job
  <2>2. PICK e : (e = dev[a] \/ Updates(a, e)) /\ dev' = [dev EXCEPT ![a] = e]
    BY <1>4, <1>6
  <2>3. \A b \in Apps : AppInv(b)'
    BY <1>2, <2>2, UpdateKeepsApp
  <2> QED
    BY <1>2, <2>1, <2>3, GiveUpKeeps
<1> QED
  BY <1>3, <1>5, <1>6

\* The application refuses, and the job gives up.
LEMMA RefusedKeeps ==
  ASSUME SInv, NEW a \in Apps, job.app = a, job.pc \in {"memberships", "identity", "policy"},
         Refused(Queue)
  PROVE  AppsInv' /\ Turn
<1>1. Typed /\ \A b \in Apps : AppInv(b)
  BY DEF SInv, IInv, AppsInv
<1>2. usr' = usr /\ counter' = counter /\ row' = row /\ dev' = dev
  BY DEF Refused
<1>3. \A b \in Apps : AppInv(b)'
  BY <1>1, <1>2, AppFrame
<1>4. job' = Report(job, job.sync)
  BY <1>1, JobTypes2 DEF Refused, GiveUp, Step, job
<1> QED
  BY <1>2, <1>3, <1>4, GiveUpKeeps

\* The job goes on to the next kind of call.
LEMMA GoesOnKeeps ==
  ASSUME SInv, NEW a \in Apps, job.app = a, job.pc \in {"memberships", "identity", "policy"},
         usr' = usr, counter' = counter, row' = row,
         \A b \in Apps : AppInv(b)',
         NEW pc \in {"memberships", "identity", "policy"}, job' = [job EXCEPT !.pc = pc],
         pc = "identity" => job.mem = dev'[a].mem,
         pc = "policy" => job.mem = dev'[a].mem /\ job.id = dev'[a].id
  PROVE  AppsInv' /\ Turn
<1>1. job \in Jobs /\ JobInv(a)
  BY JobTypes2 DEF SInv, IInv, AppsInv, Working
<1>2. /\ job'.app = a /\ job'.sync = job.sync /\ job'.tx = job.tx /\ job'.pc = pc
      /\ job'.mem = job.mem /\ job'.id = job.id /\ job'.pol = job.pol
  BY <1>1 DEF Jobs
<1>3. Latest(a)' => Latest(a)
  BY <1>2 DEF Latest, Changing, ChangedBy, Marking, MarkedBy
<1>4. ReadIsStored(a) => ReadIsStored(a)'
  BY <1>2 DEF ReadIsStored, HasMem, HasId, HasPol
<1>5. JobInv(a)'
  BY <1>1, <1>2, <1>3, <1>4 DEF JobInv, HasPol
<1>6. \A b \in Apps : Working(b)' => JobInv(b)'
  BY <1>2, <1>5 DEF Working
<1>7. Turn
  BY <1>2 DEF Turn
<1> QED
  BY <1>6, <1>7 DEF AppsInv

LEMMA MembershipsKeep ==
  ASSUME SInv,
         InstallMissingMemberships(Queue) \/ RemoveRedundantMemberships(Queue) \/ MembershipsDone(Queue)
  PROVE  AppsInv' /\ Turn
<1> DEFINE a == job.app
<1>1. Typed /\ job.pc = "memberships"
  BY DEF SInv, IInv, InstallMissingMemberships, RemoveRedundantMemberships, MembershipsDone, job
<1>2. a \in Apps /\ job \in Jobs /\ dev \in [Apps -> Devices]
  BY <1>1, JobTypes2
<1>3. CASE InstallMissingMemberships(Queue) \/ RemoveRedundantMemberships(Queue)
  <2>1. PICK d : Updates(a, d) /\ RemoteCall(Queue, d, job)
    BY <1>1, <1>3 DEF InstallMissingMemberships, RemoveRedundantMemberships, Updates, job
  <2>2. job = [job EXCEPT !.pc = "memberships"]
    BY <1>1, <1>2 DEF Jobs
  <2> QED
    BY <1>1, <1>2, <2>1, <2>2, RemoteOutcome, GoesOnKeeps
<1>4. CASE MembershipsDone(Queue)
  <2> DEFINE r == [job EXCEPT !.pc = "identity"]
  <2>1. RemoteCall(Queue, dev[a], r) /\ job.mem = dev[a].mem
    BY <1>4 DEF MembershipsDone, job
  <2>2. \/ AppsInv' /\ Turn
        \/ /\ usr' = usr /\ counter' = counter /\ row' = row
           /\ dev' = [dev EXCEPT ![a] = dev[a]] /\ job' = r
           /\ \A b \in Apps : AppInv(b)'
    BY <1>1, <1>2, <2>1, RemoteOutcome
  <2>3. dev' = [dev EXCEPT ![a] = dev[a]] => dev'[a] = dev[a]
    BY <1>2
  <2> QED
    BY <1>1, <1>2, <2>1, <2>2, <2>3, GoesOnKeeps
<1> QED
  BY <1>3, <1>4

LEMMA IdentityKeeps ==
  ASSUME SInv, ApplyIdentity(Queue)
  PROVE  AppsInv' /\ Turn
<1> DEFINE a == job.app
           r == [job EXCEPT !.pc = "policy"]
           new == [dev[a] EXCEPT !.id = job.id, !.state = "CLAIMED"]
<1>1. Typed /\ job.pc = "identity"
  BY DEF SInv, IInv, ApplyIdentity, job
<1>2. a \in Apps /\ job \in Jobs /\ dev \in [Apps -> Devices] /\ dev[a] \in Devices
  BY <1>1, JobTypes2
<1>3. JobInv(a)
  BY <1>1, <1>2 DEF SInv, AppsInv, Working
<1>4. \/ dev[a].id = job.id /\ RemoteCall(Queue, dev[a], r)
      \/ dev[a].id # job.id /\ RemoteCall(Queue, new, r)
      \/ Refused(Queue)
  BY DEF ApplyIdentity, job
<1>5. ASSUME NEW d, d = dev[a] \/ Updates(a, d), d.id = job.id, d.mem = dev[a].mem,
             RemoteCall(Queue, d, r)
      PROVE  AppsInv' /\ Turn
  <2>1. \/ AppsInv' /\ Turn
        \/ /\ usr' = usr /\ counter' = counter /\ row' = row
           /\ dev' = [dev EXCEPT ![a] = d] /\ job' = r
           /\ \A b \in Apps : AppInv(b)'
    BY <1>1, <1>2, <1>5, RemoteOutcome
  <2>2. dev' = [dev EXCEPT ![a] = d] => dev'[a] = d
    BY <1>2
  <2>3. job.mem = dev[a].mem
    BY <1>1, <1>3 DEF JobInv
  <2> QED
    BY <1>1, <1>2, <1>5, <2>1, <2>2, <2>3, GoesOnKeeps
<1>6. dev[a].id # job.id => Updates(a, new)
  BY <1>1 DEF Updates
<1>7. new.id = job.id /\ new.mem = dev[a].mem
  BY <1>2 DEF Devices
<1> HIDE DEF new, r
<1>8. CASE dev[a].id = job.id /\ RemoteCall(Queue, dev[a], r)
  BY <1>5, <1>8
<1>9. CASE dev[a].id # job.id /\ RemoteCall(Queue, new, r)
  BY <1>5, <1>6, <1>7, <1>9
<1>10. CASE Refused(Queue)
  BY <1>1, <1>2, <1>10, RefusedKeeps
<1> QED
  BY <1>4, <1>8, <1>9, <1>10

\* The application has the whole configuration; that is what the job reports.
LEMMA PolicyKeeps ==
  ASSUME SInv, ApplyPolicy(Queue)
  PROVE  AppsInv' /\ Turn
<1>1. Typed /\ UpdaterInv(Queue) /\ job.pc = "policy"
  BY DEF SInv, IInv, KeptInv, Updaters, ApplyPolicy, job
<1> PICK a \in Apps : a = job.app
  BY <1>1, JobTypes2
<1> DEFINE r == Report(job, "OK")
           new == [dev[a] EXCEPT !.pol = job.pol]
<1>2. job \in Jobs /\ dev \in [Apps -> Devices] /\ dev[a] \in Devices
  BY <1>1, JobTypes2
<1>3. JobInv(a) /\ AppInv(a) /\ job.sync # "WILL_RESET"
  BY <1>1, <1>2 DEF SInv, AppsInv, Working, UpdaterInv, Updating, job
<1>4. \/ job.pol.ver = dev[a].pol.ver /\ RemoteCall(Queue, dev[a], r)
      \/ job.pol.ver # dev[a].pol.ver /\ RemoteCall(Queue, new, r)
      \/ Refused(Queue)
  BY DEF ApplyPolicy, job
<1>5. new.pol = job.pol /\ new.mem = dev[a].mem /\ new.id = dev[a].id
  BY <1>2 DEF Devices
<1>6. job.pol.ver # dev[a].pol.ver => Updates(a, new)
  BY <1>1 DEF Updates
<1>7. r.pc = "report" /\ r.app = a /\ r.sync = "OK" /\ r.tx = job.tx
  BY ReportFields
<1> HIDE DEF new, r
<1>8. ASSUME NEW d, d = dev[a] \/ Updates(a, d), d.mem = dev[a].mem, d.id = dev[a].id,
             d.pol = job.pol \/ (d.pol = dev[a].pol /\ job.pol.ver = dev[a].pol.ver),
             RemoteCall(Queue, d, r)
      PROVE  AppsInv' /\ Turn
  <2>1. \/ AppsInv' /\ Turn
        \/ /\ usr' = usr /\ counter' = counter /\ row' = row
           /\ dev' = [dev EXCEPT ![a] = d] /\ job' = r
           /\ \A b \in Apps : AppInv(b)'
    BY <1>1, <1>2, <1>8, RemoteOutcome
  <2>2. ASSUME usr' = usr, counter' = counter, row' = row,
               dev' = [dev EXCEPT ![a] = d], job' = r, \A b \in Apps : AppInv(b)'
        PROVE  AppsInv' /\ Turn
    <3>1. dev'[a] = d
      BY <1>2, <2>2
    <3>2. ASSUME row[a].managed, ~Changing(a), job.tx = counter PROVE InSync(a)'
      <4>1. ReadIsStored(a)
        BY <1>3, <3>2 DEF JobInv, Latest
      <4>2. row[a].sync # "WILL_RESET"
        BY <1>1, <1>3, <3>2 DEF JobInv
      <4>3. d.mem = row[a].mem /\ d.id = row[a].id
        BY <1>1, <1>3, <1>8, <4>1 DEF JobInv, ReadIsStored, HasMem, HasId, HasPol
      <4>4. job.pol = row[a].pol
        BY <1>1, <4>1 DEF ReadIsStored, HasPol
      <4>5. d.pol = row[a].pol
        BY <1>3, <1>8, <3>2, <4>2, <4>4 DEF AppInv, Older
      <4>6. row' = row
        BY <2>2
      <4> QED
        BY <3>1, <4>3, <4>5, <4>6 DEF InSync
    <3>3. Changing(a)' = Changing(a)
      <4>1. usr' = usr
        BY <2>2
      <4> QED
        BY <4>1 DEF Changing, ChangedBy
    <3>4. JobInv(a)'
      BY <1>7, <2>2, <3>2, <3>3 DEF JobInv, ReadIsStored, HasMem, HasId, HasPol
    <3>5. \A b \in Apps : Working(b)' => JobInv(b)'
      BY <1>7, <2>2, <3>4 DEF Working
    <3>6. Turn
      BY <1>7, <2>2 DEF Turn
    <3> QED
      BY <2>2, <3>5, <3>6 DEF AppsInv
  <2> QED
    BY <2>1, <2>2
<1>9. CASE job.pol.ver = dev[a].pol.ver /\ RemoteCall(Queue, dev[a], r)
  BY <1>8, <1>9
<1>10. CASE job.pol.ver # dev[a].pol.ver /\ RemoteCall(Queue, new, r)
  <2>1. Updates(a, new) /\ RemoteCall(Queue, new, r)
    BY <1>6, <1>10
  <2> QED
    BY <1>5, <1>8, <2>1
<1>11. CASE Refused(Queue)
  BY <1>1, <1>2, <1>11, RefusedKeeps
<1> QED
  BY <1>4, <1>9, <1>10, <1>11

\* An application that is reset has a request to reset it: nothing is said of it.
LEMMA ResetKeeps ==
  ASSUME SInv, ResetRemote(Queue)
  PROVE  AppsInv' /\ Turn
<1>1. Typed /\ job.pc = "reset"
  BY DEF SInv, IInv, ResetRemote, job
<1> PICK a \in Apps : a = job.app
  BY <1>1, JobTypes2
<1> DEFINE d == Unclaimed(dev[a])
           r == Report(job, "RESET")
<1>2. row \in [Apps -> Rows] /\ dev \in [Apps -> Devices] /\ \A b \in Apps : AppInv(b)
  BY <1>1, JobTypes2 DEF SInv, AppsInv
<1>3. job.sync = "WILL_RESET" /\ (row[a].managed => row[a].sync = "WILL_RESET")
  BY <1>1 DEF SInv, AppsInv, Working, JobInv
<1>4. RemoteCall(Queue, d, r)
  BY DEF ResetRemote, job
<1>5. r.pc = "report" /\ r.app = a /\ r.sync = "RESET" /\ r.tx = job.tx
  BY ReportFields
<1> HIDE DEF d, r
<1>6. usr' = usr /\ counter' = counter /\ row' = row
  BY <1>4 DEF RemoteCall
<1>7. \/ upd' = [upd EXCEPT ![Queue] = r]
      \/ upd' = [upd EXCEPT ![Queue] = Report(job, job.sync)]
  BY <1>4 DEF RemoteCall, GiveUp, Step, job
<1>8. dev' = dev \/ dev' = [dev EXCEPT ![a] = d]
  BY <1>4 DEF RemoteCall, job
<1>9. \A b \in Apps : AppInv(b)'
  <2>1. AppInv(a)'
    BY <1>3, <1>6 DEF AppInv
  <2>2. ASSUME NEW b \in Apps, b # a PROVE AppInv(b)'
    <3>1. dev'[b] = dev[b]
      BY <1>2, <1>8, <2>2
    <3> QED
      BY <1>2, <1>6, <3>1, AppFrame
  <2> QED
    BY <2>1, <2>2
<1>10. CASE upd' = [upd EXCEPT ![Queue] = r]
  <2>1. job' = r
    BY <1>1, <1>10, JobTypes2
  <2>2. \A b \in Apps : Working(b)' => JobInv(b)'
    BY <1>5, <2>1 DEF JobInv, ReadIsStored, HasMem, HasId, HasPol
  <2>3. Turn
    BY <1>3, <1>5, <1>6, <2>1 DEF Turn
  <2> QED
    BY <1>9, <2>2, <2>3 DEF AppsInv
<1>11. CASE upd' = [upd EXCEPT ![Queue] = Report(job, job.sync)]
  <2>1. job' = Report(job, job.sync)
    BY <1>1, <1>11, JobTypes2
  <2> QED
    BY <1>1, <1>6, <1>9, <2>1, GiveUpKeeps
<1> QED
  BY <1>7, <1>10, <1>11

------------------------------------------------------------------------------
(* UpdatesCompleted *)

LEMMA CompletedKeeps ==
  ASSUME SInv, CompletedReset(Queue) \/ CompletedOK(Queue) \/ CompletedNothing(Queue)
  PROVE  AppsInv' /\ Turn
<1>1. Typed /\ job.pc = "report" /\ usr' = usr /\ counter' = counter /\ dev' = dev
  BY DEF SInv, IInv, CompletedReset, CompletedOK, CompletedNothing, job
<1> PICK a \in Apps : a = job.app
  BY <1>1, JobTypes2
<1>2. row \in [Apps -> Rows] /\ job \in Jobs /\ JobInv(a) /\ \A b \in Apps : AppInv(b)
  BY <1>1, JobTypes2 DEF SInv, AppsInv, Working
<1>3. CASE CompletedReset(Queue)
  <2>1. row' = [row EXCEPT ![a] = NoRow] /\ job.sync = "RESET"
    BY <1>3 DEF CompletedReset, job
  <2>2. job' = NoJob
    BY <1>1, <1>3, JobTypes2 DEF CompletedReset, Step
  <2>3. row'[a] = NoRow /\ \A b \in Apps : b # a => row'[b] = row[b]
    BY <1>2, <2>1
  <2>4. ~row'[a].managed /\ row'[a].pol.ver = 0
    BY <2>3 DEF NoRow, DefaultPolicy
  <2>5. AppInv(a)'
    BY <2>4 DEF AppInv
  <2>6. \A b \in Apps : b # a => AppInv(b)'
    BY <1>1, <1>2, <2>3, AppFrame
  <2>7. \A b \in Apps : ~Working(b)'
    BY <2>2, IdleFields DEF Working
  <2>8. Turn
    BY <1>1, <2>1, <2>2, <2>3, <2>4, IdleFields DEF Turn
  <2> QED
    BY <2>5, <2>6, <2>7, <2>8 DEF AppsInv
<1>4. CASE CompletedOK(Queue)
  <2>1. row' = row /\ job.sync = "OK" /\ job.tx = counter
    BY <1>4 DEF CompletedOK, job
  <2>2. job' = [job EXCEPT !.pc = "persist"]
    BY <1>1, <1>4, JobTypes2 DEF CompletedOK, Step, job
  <2>3. job'.pc = "persist" /\ job'.app = a /\ job'.sync = job.sync /\ job'.tx = job.tx
    BY <1>2, <2>2 DEF Jobs
  <2>4. Changing(a)' = Changing(a) /\ InSync(a)' = InSync(a)
    BY <1>1, <2>1 DEF Changing, ChangedBy, InSync
  <2>5. JobInv(a)'
    BY <1>1, <1>2, <2>1, <2>3, <2>4 DEF JobInv, ReadIsStored, HasMem, HasId, HasPol
  <2>6. \A b \in Apps : Working(b)' => JobInv(b)'
    BY <2>3, <2>5 DEF Working
  <2>7. Turn
    BY <1>1, <2>1, <2>3 DEF Turn
  <2> QED
    BY <1>1, <2>1, <2>6, <2>7, JobMoves
<1>5. CASE CompletedNothing(Queue)
  <2>1. job' = NoJob /\ row' = row
    BY <1>1, <1>5, JobTypes2 DEF CompletedNothing, Step
  <2> QED
    BY <1>1, <2>1, IdleFields, EndsJob
<1> QED
  BY <1>3, <1>4, <1>5

\* The state OK is stored only while nothing has changed since StartUpdates.
LEMMA PersistKeeps ==
  ASSUME SInv, Persist(Queue)
  PROVE  AppsInv' /\ Turn
<1>1. /\ Typed /\ UpdaterInv(Queue) /\ job.pc = "persist"
      /\ usr' = usr /\ counter' = counter /\ dev' = dev
  BY DEF SInv, IInv, KeptInv, Updaters, Persist, job
<1> PICK a \in Apps : a = job.app
  BY <1>1, JobTypes2
<1>2. row \in [Apps -> Rows] /\ JobInv(a) /\ \A b \in Apps : AppInv(b)
  BY <1>1, JobTypes2 DEF SInv, AppsInv, Working
<1>3. ~Requested(a)
  BY <1>1 DEF UpdaterInv, job
<1>4. job' = NoJob
  BY <1>1, JobTypes2 DEF Persist, Step
<1>5. \/ row' = row
      \/ row[a].managed /\ row' = [row EXCEPT ![a].sync = "OK"]
  BY DEF Persist, job
<1>6. CASE row' = row
  BY <1>1, <1>4, <1>6, IdleFields, EndsJob
<1>7. CASE row[a].managed /\ row' = [row EXCEPT ![a].sync = "OK"]
  <2>1. row[a] \in Rows /\ \A b \in Apps : b # a => row'[b] = row[b]
    BY <1>2, <1>7
  <2>2. row'[a] = [row[a] EXCEPT !.sync = "OK"]
    BY <1>2, <1>7
  <2>3. /\ row'[a].managed = row[a].managed /\ row'[a].id = row[a].id
        /\ row'[a].mem = row[a].mem /\ row'[a].pol = row[a].pol
    BY <2>1, <2>2 DEF Rows
  <2>4. ~Changing(a) => InSync(a)
    BY <1>1, <1>2, <1>7 DEF JobInv
  <2>5. Older(dev[a].pol, row[a].pol)
    BY <1>2, <1>3, <1>7 DEF AppInv, Requested
  <2>6. Changing(a)' = Changing(a)
    BY <1>1 DEF Changing, ChangedBy
  <2>7. Older(dev[a].pol, row[a].pol)'
    BY <1>1, <2>3, <2>5
  <2>8. InSync(a)' = InSync(a)
    BY <1>1, <2>3 DEF InSync
  <2>9. AppInv(a)'
    BY <2>4, <2>6, <2>7, <2>8 DEF AppInv
  <2>10. \A b \in Apps : b # a => AppInv(b)'
    BY <1>1, <1>2, <2>1, AppFrame
  <2>11. \A b \in Apps : ~Working(b)'
    BY <1>4, IdleFields DEF Working
  <2>12. Turn
    BY <1>1, <1>4, <2>1, <2>3, IdleFields DEF Turn
  <2> QED
    BY <2>9, <2>10, <2>11, <2>12 DEF AppsInv
<1> QED
  BY <1>5, <1>6, <1>7

\* All steps of the queue's thread.
LEMMA QueueKeepsApps ==
  ASSUME SInv, Updater(Queue)
  PROVE  AppsInv' /\ Turn
BY TakeEventKeeps, StartKeeps, ReadsKeep, ConnectKeeps, MembershipsKeep, IdentityKeeps,
   PolicyKeeps, ResetKeeps, CompletedKeeps, PersistKeeps DEF Updater

\* The calls of the UI do not notice what the queue's thread does.
LEMMA QueueKeepsCalls ==
  ASSUME Guarded, SInv, Typed', Updater(Queue)
  PROVE  CallsInv'
<1>1. Turn /\ Typed /\ \A x \in Users : UserInv(x) /\ CallInv(x)
  BY QueueKeepsApps DEF SInv, IInv, KeptInv, CallsInv
<1>2. usr' = usr /\ counter' = counter /\ counter \in Nat
  BY <1>1, JobTypes2 DEF Turn
<1>3. SUFFICES ASSUME NEW x \in Users PROVE CallInv(x)'
  BY DEF CallsInv
<1> DEFINE c == usr[x]
<1>4. c \in Calls /\ usr'[x] = c /\ (c.pc # "idle" => c.app \in Apps)
  BY <1>1, <1>2, UserTypes
<1>5. c.pc = "storePolicy" => c.pol.ver > row'[c.app].pol.ver
  <2>1. SUFFICES ASSUME c.pc = "storePolicy" PROVE c.pol.ver > row'[c.app].pol.ver
    OBVIOUS
  <2>2. c.pol.ver > row[c.app].pol.ver /\ c.pol.ver \in Nat /\ row[c.app].pol.ver \in Nat
    BY <1>1, <1>4, <2>1, JobTypes2 DEF CallInv, Calls, Versions, Rows
  <2>3. row'[c.app].pol = row[c.app].pol \/ row'[c.app].pol.ver = 0
    BY <1>1, <1>4, <2>1 DEF Turn
  <2> QED
    BY <2>2, <2>3
<1>6. c.todo # {} => row'[c.app].managed /\ \A a \in c.todo : row'[a].managed
  <2>1. SUFFICES ASSUME c.todo # {} PROVE row'[c.app].managed /\ \A a \in c.todo : row'[a].managed
    OBVIOUS
  <2>2. row[c.app].managed /\ \A a \in c.todo : row[a].managed
    BY <1>1, <2>1 DEF CallInv
  <2>3. job.sync # "RESET"
    BY <1>1, <2>1 DEF CallInv, Guarded, SInv, NoResets
  <2>4. c.todo \subseteq Apps /\ c.app \in Apps
    BY <1>1, <1>4, <2>1 DEF Calls, CallInv
  <2> QED
    BY <1>1, <2>2, <2>3, <2>4 DEF Turn
<1>7. c.pc = "markPending" => counter > 0 /\ (job'.app = c.app => job'.tx < counter)
  <2>1. SUFFICES ASSUME c.pc = "markPending"
                 PROVE  counter > 0 /\ (job'.app = c.app => job'.tx < counter)
    OBVIOUS
  <2>2. counter > 0 /\ (job.app = c.app => job.tx < counter)
    BY <1>1, <2>1 DEF CallInv
  <2>3. lock # Nobody
    BY <1>1, <2>1, AppSyncAssumption DEF UserInv
  <2> QED
    BY <1>1, <1>2, <2>2, <2>3 DEF Turn
<1>8. CallInv(x)
  BY <1>1
<1>9. UNCHANGED usr /\ UNCHANGED counter
  BY <1>2
<1> QED
  BY <1>5, <1>6, <1>7, <1>8, <1>9 DEF CallInv

LEMMA QueueKeepsNoResets ==
  ASSUME Guarded, SInv, Updater(Queue)
  PROVE  NoResets'
<1>1. Turn /\ Typed /\ UpdaterInv(Queue)
  BY QueueKeepsApps DEF SInv, IInv, KeptInv, Updaters
<1>2. NoRequest
  BY <1>1, UpdaterKeeps DEF Updaters
<1> QED
  BY <1>1, <1>2 DEF SInv, NoResets, Turn, NoRequest

------------------------------------------------------------------------------
(* The other steps *)

\* Applications that come, go and announce themselves.
LEMMA AppsKeep ==
  ASSUME SInv, UNCHANGED <<row, counter, usr, upd>>,
         \A a \in Apps : /\ dev'[a].id = dev[a].id /\ dev'[a].mem = dev[a].mem
                         /\ dev'[a].pol = dev[a].pol
  PROVE  CallsInv' /\ NoResets' /\ AppsInv' /\ CallersInv'
<1>1. usr' = usr /\ counter' = counter /\ row' = row /\ upd' = upd /\ job' = job
  BY DEF job
<1>2. CallsInv'
  BY <1>1 DEF SInv, CallsInv, CallInv
<1>3. NoResets' /\ CallersInv'
  BY <1>1 DEF SInv, NoResets, CallersInv, Requested
<1>4. ASSUME NEW a \in Apps PROVE AppInv(a)'
  BY <1>1, AppFrame DEF SInv, AppsInv
<1>5. ASSUME NEW a \in Apps, Working(a)' PROVE JobInv(a)'
  <2>1. JobInv(a)
    BY <1>1, <1>5 DEF SInv, AppsInv, Working
  <2>2. /\ Changing(a)' = Changing(a) /\ Marking(a)' = Marking(a)
        /\ InSync(a)' = InSync(a)
    BY <1>1 DEF Changing, ChangedBy, Marking, MarkedBy, InSync
  <2>3. Latest(a)' = Latest(a) /\ ReadIsStored(a)' = ReadIsStored(a)
    BY <1>1, <2>2 DEF Latest, ReadIsStored
  <2> QED
    BY <1>1, <2>1, <2>2, <2>3 DEF JobInv
<1> QED
  BY <1>2, <1>3, <1>4, <1>5 DEF AppsInv

\* The invariant is inductive.
LEMMA SyncKept ==
  ASSUME Guarded, SInv, [Next]_vars
  PROVE  SInv'
<1>1. IInv' /\ Typed' /\ Typed
  BY InvariantKept DEF SInv, IInv
<1>2. /\ usr \in [Users -> Calls] /\ upd \in [Updaters -> Jobs]
      /\ dev \in [Apps -> Devices] /\ spent \in Bounds
      /\ Queue \notin Callers
  BY <1>1, AppSyncAssumption DEF Typed, TypeOK
<1>3. ASSUME NEW x \in Users, User(x)
      PROVE  CallsInv' /\ NoResets' /\ AppsInv' /\ CallersInv'
  <2>1. upd' = upd
    BY <1>1, <1>3, UserLeaves DEF SInv, IInv, KeptInv, CallsInv, Updaters
  <2> QED
    BY <1>1, <1>3, <2>1, UserKeepsCalls, UserKeepsNoResets, UserKeepsApps DEF SInv, CallersInv
<1>4. ASSUME Updater(Queue)
      PROVE  CallsInv' /\ NoResets' /\ AppsInv' /\ CallersInv'
  <2>1. \A u \in Updaters \ {Queue} : upd'[u] = upd[u]
    BY <1>1, <1>4, UpdaterKeeps DEF SInv, IInv, KeptInv, Updaters
  <2>2. CallersInv'
    BY <1>2, <2>1 DEF SInv, CallersInv, Updaters
  <2> QED
    BY <1>1, <1>4, <2>2, QueueKeepsApps, QueueKeepsCalls, QueueKeepsNoResets
<1>5. ASSUME NEW u \in Callers PROVE ~Updater(u)
  <2>1. upd[u].pc = "idle" /\ u # Queue /\ "UpdateApplications" \notin Ops
    BY <1>2 DEF SInv, CallersInv, Guarded
  <2> QED
    BY <2>1 DEF Updater, DirectCall, StartUpdates, ReadMemberships, ReadIdentity,
       ReadManifest, ReadPolicy, Connect, ConnectFails, InstallMissingMemberships,
       RemoveRedundantMemberships, MembershipsDone, ApplyIdentity, ApplyPolicy, ResetRemote,
       CompletedReset, CompletedRestart, CompletedOK, CompletedNothing, Persist
<1>6. ASSUME NEW a \in Apps, State(a) \/ AppStops(a) \/ AppNeedsUpdate(a) \/ AppStarts(a)
      PROVE  CallsInv' /\ NoResets' /\ AppsInv' /\ CallersInv'
  <2>1. UNCHANGED <<row, counter, usr, upd>>
    BY <1>6 DEF State, AppStops, AppNeedsUpdate, AppStarts, AppEvent
  <2>2. \/ dev' = dev
        \/ dev' = [dev EXCEPT ![a].up = FALSE]
        \/ dev' = [dev EXCEPT ![a].state = "NEED_UPDATE"]
        \/ dev' = [dev EXCEPT ![a].up = TRUE, ![a].bus = @ + 1]
    BY <1>6 DEF State, AppStops, AppNeedsUpdate, AppStarts, AppEvent
  <2>3. ASSUME NEW b \in Apps
        PROVE  /\ dev'[b].id = dev[b].id /\ dev'[b].mem = dev[b].mem
               /\ dev'[b].pol = dev[b].pol
    BY <1>2, <2>2 DEF Devices
  <2> QED
    BY <2>1, <2>3, AppsKeep
<1>7. ~Crash
  BY <1>2 DEF Crash, Guarded, Bounds
<1>8. CASE UNCHANGED vars
  <2>1. UNCHANGED <<row, counter, usr, upd>> /\ dev' = dev
    BY <1>8 DEF vars
  <2> QED
    BY <1>1, <2>1, AppsKeep DEF SInv
<1>9. \A u \in Updaters : Updater(u) => u = Queue
  BY <1>5 DEF Updaters
<1> QED
  BY <1>1, <1>3, <1>4, <1>6, <1>7, <1>8, <1>9 DEF Next, SInv

\* Initially the claimed applications have what is in the storage.
LEMMA InitSync ==
  ASSUME Init
  PROVE  SInv
<1>1. IInv
  BY InitTyped, InitKept DEF IInv
<1>2. /\ \A x \in Users : usr[x] = NoCall
      /\ \A u \in Updaters : upd[u] = NoJob
      /\ job = NoJob /\ counter = 0
  BY DEF Init, job, Updaters
<1>3. CallsInv
  BY <1>2 DEF CallsInv, CallInv, NoCall
<1>4. ASSUME NEW a \in Apps
      PROVE  /\ row[a].sync = "OK"
             /\ row[a].managed => InSync(a) /\ row[a].pol.ver \in Nat
  <2>1. CASE a \in Managed
    <3>1. row[a] = [NewRow(1) EXCEPT !.mem = OldCerts]
      BY <2>1 DEF Init
    <3>2. dev[a].id = 1 /\ dev[a].mem = OldCerts /\ dev[a].pol = DefaultPolicy
      BY <2>1 DEF Init
    <3>3. /\ row[a].sync = "OK" /\ row[a].id = 1 /\ row[a].mem = OldCerts
          /\ row[a].pol = DefaultPolicy
      BY <3>1 DEF NewRow, NoRow
    <3> QED
      BY <3>2, <3>3 DEF InSync, DefaultPolicy
  <2>2. CASE a \notin Managed
    <3>1. row[a] = NoRow
      BY <2>2 DEF Init
    <3> QED
      BY <3>1 DEF NoRow
  <2> QED
    BY <2>1, <2>2
<1>5. NoResets
  BY <1>2, <1>4 DEF NoResets, Requested, NoJob, NoCall
<1>6. AppsInv
  BY <1>2, <1>4 DEF AppsInv, AppInv, Working, NoJob, InSync, Older
<1>7. CallersInv
  BY <1>2 DEF CallersInv, NoJob, Updaters
<1> QED
  BY <1>1, <1>3, <1>5, <1>6, <1>7 DEF SInv

\* "There are no pending changes" is true: when the storage says OK of an
\* application, and no call that changes it and no update of it is under way,
\* the application has exactly the certificates and the policy in the storage.
\* This is what the counter of UIStorageImpl is for.  It needs the operations
\* and the threads of Guarded: an administrator who uses one thread to change
\* policies, removes none, and leaves the updates to the queue's thread, in one
\* session of the program.
THEOREM ConfigurationIsApplied == ASSUME Guarded PROVE Spec => []SyncedWhenOK
<1>1. Init => SInv
  BY InitSync
<1>2. SInv /\ [Next]_vars => SInv'
  BY SyncKept
<1>3. SInv => SyncedWhenOK
  <2>1. SUFFICES ASSUME SInv, NEW a \in Apps, row[a].managed, row[a].sync = "OK", Quiet(a)
                 PROVE  InSync(a)
    BY DEF SyncedWhenOK
  <2>2. ~Changing(a) /\ ~Marking(a)
    BY <2>1 DEF Quiet, Changing, ChangedBy, Marking, MarkedBy
  <2>3. AppInv(a)
    BY <2>1 DEF SInv, AppsInv
  <2> QED
    BY <2>1, <2>2, <2>3 DEF AppInv
<1> QED
  BY <1>1, <1>2, <1>3, PTL DEF Spec

==============================================================================
