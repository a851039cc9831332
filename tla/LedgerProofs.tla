---------------------------- MODULE LedgerProofs ----------------------------
(***************************************************************************)
(* Settlement implements LossyLedger: every commit that writes a wallet is *)
(* one credit on top of a committed version of that wallet, and no other   *)
(* step changes a wallet.                                                  *)
(***************************************************************************)
EXTENDS SettlementProofs

\* Every committed row is a recorded version, and every copy in flight is one of
\* them, raised by the amount of its call.
VersionsKept ==
    /\ \A u \in Users : wallet[u] \in versions[u]
    /\ \A c \in Calls : HoldsWalletCopy(c) =>
        \E version \in versions[UserOf(c)] : \A k \in Column :
            userWallet[c][k] = version[k] +
                (IF k = CreditedColumn(TrxOf(c)) THEN AmountOf[TrxOf(c)] ELSE 0)

LEMMA InitVersions == Init => VersionsKept
  BY DEF Init, VersionsKept, HoldsWalletCopy, HasWallet, EmptyWallet

\* A copy that a step leaves alone is still a copy of a recorded version.
LEMMA FrameVersions ==
    ASSUME TypeOK, VersionsKept, \A d \in Calls : Framed(d),
           wallet' = wallet, versions' = versions
    PROVE  VersionsKept'
  <1>1. ASSUME NEW d \in Calls, HoldsWalletCopy(d)'
        PROVE  \E version \in versions'[UserOf(d)'] : \A k \in Column :
                userWallet'[d][k] = version[k] +
                    (IF k = CreditedColumn(TrxOf(d))' THEN AmountOf[TrxOf(d)'] ELSE 0)
    <2>1. HoldsWalletCopy(d) /\ request'[d] = request[d] /\ userWallet'[d] = userWallet[d]
      BY <1>1 DEF Framed
    <2>2. /\ TrxOf(d)' = TrxOf(d) /\ UserOf(d)' = UserOf(d)
          /\ CreditedColumn(TrxOf(d))' = CreditedColumn(TrxOf(d))
      BY <2>1 DEF TrxOf, UserOf, CreditedColumn
    <2> QED
      BY <2>1, <2>2 DEF VersionsKept
  <1> QED
    BY <1>1 DEF VersionsKept

\* The ledger's credit, as a commit performs it.
LEMMA CommitCredits ==
    ASSUME TypeOK, Money, VersionsKept, NEW c \in Calls, Commit(c), "wallet" \in held[c]
    PROVE  Ledger!Credit(UserOf(c), CreditedColumn(TrxOf(c)), AmountOf[TrxOf(c)])
  <1> DEFINE u == UserOf(c)
             t == TrxOf(c)
             own == CreditedColumn(t)
             stale == DOMAIN walletSet[c] \ {own}
  <1>1. /\ wallet' = [wallet EXCEPT ![u] = Overlay(wallet[u], walletSet[c])]
        /\ credited' = [credited EXCEPT ![u][own] = @ + AmountOf[t]]
        /\ versions' = [versions EXCEPT ![u] = @ \cup {wallet'[u]}]
    BY DEF Commit, CommitRows, RecordCommit
  <1>2. HoldsWalletCopy(c) /\ pc[c] # "reloadWallet"
    BY DEF Money, CopiesBacked
  <1>3. PICK version \in versions[u] : \A k \in Column :
            userWallet[c][k] = version[k] + (IF k = own THEN AmountOf[t] ELSE 0)
    BY <1>2 DEF VersionsKept
  <1>4. version \in [Column -> Nat]
    BY <1>3, CallTypes DEF TypeOK, HistoryTyped
  <1>5. /\ own \in DOMAIN walletSet[c]
        /\ DOMAIN walletSet[c] \subseteq Column
        /\ \A k \in DOMAIN walletSet[c] : walletSet[c][k] = userWallet[c][k]
    BY <1>2 DEF Money, CopiesExact, TypeOK, ObjectsTyped
  <1>6. stale \in SUBSET (Column \ {own})
    BY <1>5
  <1>7. Overlay(wallet[u], walletSet[c]) =
            [j \in Column |-> IF j = own THEN version[own] + AmountOf[t]
                              ELSE IF j \in stale THEN version[j] ELSE wallet[u][j]]
    <2>1. DOMAIN wallet[u] = Column
      BY CallTypes DEF TypeOK, RowsTyped
    <2>2. ASSUME NEW j \in Column
          PROVE  (IF j \in DOMAIN walletSet[c] THEN walletSet[c][j] ELSE wallet[u][j])
                    = IF j = own THEN version[own] + AmountOf[t]
                      ELSE IF j \in stale THEN version[j] ELSE wallet[u][j]
      <3>1. version[j] \in Nat
        BY <1>4
      <3>2. CASE j = own
        BY <1>3, <1>5, <3>2
      <3>3. CASE j # own /\ j \in DOMAIN walletSet[c]
        BY <1>3, <1>5, <3>1, <3>3
      <3>4. CASE j # own /\ j \notin DOMAIN walletSet[c]
        BY <3>4
      <3> QED
        BY <3>2, <3>3, <3>4
    <2> HIDE DEF stale
    <2> QED
      BY <2>1, <2>2 DEF Overlay
  <1> HIDE DEF stale
  <1> QED
    BY <1>1, <1>3, <1>6, <1>7 DEF Ledger!Credit

\* A commit keeps the older versions and adds the row it wrote.
LEMMA VersionsCommit ==
    ASSUME TypeOK, Money, VersionsKept, NEW c \in Calls, Commit(c)
    PROVE  VersionsKept'
  <1> DEFINE u == UserOf(c)
  <1>1. /\ versions' = [versions EXCEPT ![u] = @ \cup {wallet'[u]}]
        /\ request' = request
        /\ \A v \in Users \ {u} : wallet'[v] = wallet[v]
    BY CallTypes DEF Commit, CommitRows, RecordCommit, TypeOK, RowsTyped
  <1>2. \A v \in Users : versions[v] \subseteq versions'[v] /\ wallet'[v] \in versions'[v]
    BY <1>1, CallTypes DEF TypeOK, HistoryTyped, VersionsKept
  <1>3. ASSUME NEW d \in Calls, HoldsWalletCopy(d)'
        PROVE  \E version \in versions'[UserOf(d)'] : \A k \in Column :
                userWallet'[d][k] = version[k] +
                    (IF k = CreditedColumn(TrxOf(d))' THEN AmountOf[TrxOf(d)'] ELSE 0)
    <2>1. pc'[c] = "done" /\ \A e \in Calls \ {c} : pc'[e] = pc[e] /\ userWallet'[e] = userWallet[e]
      BY DEF Commit, Step, Forget, TypeOK, CallsTyped, ObjectsTyped
    <2>2. d # c
      BY <1>3, <2>1 DEF HoldsWalletCopy, HasWallet
    <2>3. HoldsWalletCopy(d) /\ userWallet'[d] = userWallet[d]
      BY <1>1, <1>3, <2>1, <2>2 DEF HoldsWalletCopy, TrxOf
    <2>4. /\ TrxOf(d)' = TrxOf(d) /\ UserOf(d)' = UserOf(d)
          /\ CreditedColumn(TrxOf(d))' = CreditedColumn(TrxOf(d))
      BY <1>1 DEF TrxOf, UserOf, CreditedColumn
    <2> QED
      BY <1>2, <2>3, <2>4, CallTypes DEF VersionsKept
  <1> QED
    BY <1>2, <1>3 DEF VersionsKept

\* A wallet that has just been read is the committed one, which is a version.
LEMMA VersionsFind ==
    ASSUME TypeOK, VersionsKept, NEW c \in Calls, FindWallet(c)
    PROVE  VersionsKept'
  <1>1. /\ pc' = [pc EXCEPT ![c] = "reloadWallet"]
        /\ userWallet' = [userWallet EXCEPT ![c] = Raised(wallet[UserOf(c)], TrxOf(c))]
        /\ wallet' = wallet /\ versions' = versions /\ request' = request
    BY DEF FindWallet, Step, rows
  <1>2. \A d \in Calls : /\ TrxOf(d)' = TrxOf(d) /\ UserOf(d)' = UserOf(d)
                         /\ CreditedColumn(TrxOf(d))' = CreditedColumn(TrxOf(d))
    BY <1>1 DEF TrxOf, UserOf, CreditedColumn
  <1>3. ASSUME NEW d \in Calls, HoldsWalletCopy(d)'
        PROVE  \E version \in versions'[UserOf(d)'] : \A k \in Column :
                userWallet'[d][k] = version[k] +
                    (IF k = CreditedColumn(TrxOf(d))' THEN AmountOf[TrxOf(d)'] ELSE 0)
    <2>1. CASE d = c
      <3>1. \A k \in Column : userWallet'[c][k] = wallet[UserOf(c)][k] +
                (IF k = CreditedColumn(TrxOf(c)) THEN AmountOf[TrxOf(c)] ELSE 0)
        BY <1>1, CallTypes DEF Raised, TypeOK, RowsTyped, ObjectsTyped
      <3> QED
        BY <1>1, <1>2, <2>1, <3>1, CallTypes DEF VersionsKept
    <2>2. CASE d # c
      <3>1. HoldsWalletCopy(d) /\ userWallet'[d] = userWallet[d]
        BY <1>1, <1>3, <2>2 DEF HoldsWalletCopy, TrxOf, TypeOK, CallsTyped, ObjectsTyped
      <3> QED
        BY <1>1, <1>2, <3>1 DEF VersionsKept
    <2> QED
      BY <2>1, <2>2
  <1> QED
    BY <1>1, <1>3 DEF VersionsKept

\* Saving the copy and locking the row change neither the copy nor the versions.
LEMMA VersionsSave ==
    ASSUME TypeOK, WalletCallsSettle, VersionsKept, NEW c \in Calls,
           ReloadWallet(c) \/ UpdateWallet(c)
    PROVE  VersionsKept'
  <1>1. /\ UNCHANGED <<wallet, versions, request, userWallet>>
        /\ pc[c] \in {"reloadWallet", "updateWallet"}
        /\ \A d \in Calls \ {c} : pc'[d] = pc[d]
    BY DEF ReloadWallet, UpdateWallet, Step, rows, history, TypeOK, CallsTyped
  <1>2. HoldsWalletCopy(c)
    BY <1>1 DEF WalletCallsSettle, HoldsWalletCopy, HasWallet
  <1>3. \A d \in Calls : HoldsWalletCopy(d)' => HoldsWalletCopy(d)
    BY <1>1, <1>2 DEF HoldsWalletCopy, TrxOf
  <1>4. \A d \in Calls : /\ TrxOf(d)' = TrxOf(d) /\ UserOf(d)' = UserOf(d)
                         /\ CreditedColumn(TrxOf(d))' = CreditedColumn(TrxOf(d))
    BY <1>1 DEF TrxOf, UserOf, CreditedColumn
  <1> QED
    BY <1>1, <1>3, <1>4 DEF VersionsKept

LEMMA NextVersions ==
    ASSUME TypeOK, WalletCallsSettle, Money, VersionsKept, [Next]_vars
    PROVE  VersionsKept'
  <1>1. CASE \A c \in Calls : ~WalletStep(c)
    BY <1>1, OtherStepsFrame, FrameVersions DEF Untouched
  <1>2. ASSUME NEW c \in Calls, WalletStep(c) PROVE VersionsKept'
    BY <1>2, VersionsFind, VersionsSave, VersionsCommit DEF WalletStep
  <1> QED
    BY <1>1, <1>2

\* Every step of Settlement is a credit of the ledger or leaves the ledger alone.
LEMMA NextLedger ==
    ASSUME TypeOK, WalletCallsSettle, Money, VersionsKept, [Next]_vars
    PROVE  [Ledger!Next]_(Ledger!ledgerVars)
  <1>1. CASE \A c \in Calls : ~WalletStep(c)
    BY <1>1, OtherStepsFrame DEF Untouched, Ledger!ledgerVars
  <1>2. ASSUME NEW c \in Calls, FindWallet(c) \/ ReloadWallet(c) \/ UpdateWallet(c)
        PROVE  UNCHANGED Ledger!ledgerVars
    BY <1>2 DEF FindWallet, ReloadWallet, UpdateWallet, rows, history, Ledger!ledgerVars
  <1>3. ASSUME NEW c \in Calls, Commit(c), "wallet" \in held[c]
        PROVE  Ledger!Next
    BY <1>3, CommitCredits, CallTypes DEF Ledger!Next
  <1>4. ASSUME NEW c \in Calls, Commit(c), "wallet" \notin held[c]
        PROVE  UNCHANGED Ledger!ledgerVars
    <2>1. /\ wallet' = wallet /\ credited' = credited
          /\ versions' = [versions EXCEPT ![UserOf(c)] = @ \cup {wallet[UserOf(c)]}]
      BY <1>4 DEF Commit, CommitRows, RecordCommit
    <2>2. versions' = versions
      BY <2>1, CallTypes DEF VersionsKept, TypeOK, HistoryTyped
    <2> QED
      BY <2>1, <2>2 DEF Ledger!ledgerVars
  <1> QED
    BY <1>1, <1>2, <1>3, <1>4 DEF WalletStep

\* Settlement implements the lossy ledger.
THEOREM SettlementImplementsLedger == Spec => ImplementsLedger
  <1>1. Init => VersionsKept /\ Ledger!Init
    BY InitVersions DEF Init, Ledger!Init, Ledger!Zero, EmptyWallet
  <1>2. TypeOK /\ WalletCallsSettle /\ Money /\ VersionsKept /\ [Next]_vars => VersionsKept'
    BY NextVersions
  <1>3. TypeOK /\ WalletCallsSettle /\ Money /\ VersionsKept /\ [Next]_vars
            => [Ledger!Next]_(Ledger!ledgerVars)
    BY NextLedger
  <1> QED
    BY <1>1, <1>2, <1>3, MoneyInvariant, PTL DEF Spec, ImplementsLedger, Ledger!Spec
=============================================================================
