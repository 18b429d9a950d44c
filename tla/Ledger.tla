------------------------------ MODULE Ledger ------------------------------
(***************************************************************************)
(* The account records of one growing branch, as block.c keeps them.       *)
(*                                                                         *)
(* Every block has a map from public keys to the records of the accounts   *)
(* that it touches.  A record holds the value of the account after the     *)
(* block and points to the record it replaces.  The records of a block are *)
(* computed once, from the records of its ancestors, so one branch stands  *)
(* for every branch of the tree.  A record is identified by the height of  *)
(* its block and the key; height 0 is the null pointer.                    *)
(***************************************************************************)
EXTENDS Accounts

CONSTANTS PublicKey,
          Value,        \* the amounts a transaction may transfer
          MaxHeight,    \* bound: the branch stops growing here
          MaxTxns(_)    \* bound: transactions in the block at a height

ASSUME LedgerAssumption ==
    /\ COINBASE_TRANSACTION \in Nat
    /\ DELEGATE_VALUE \in Nat \ {0}
    /\ U64 \in Nat \ {0}
    /\ U32 \in Nat \ {0}
    /\ WAITING_PERIOD \in Nat
    /\ Value \subseteq Nat
    /\ MaxHeight \in Nat
    /\ IsFiniteSet(PublicKey)

Txn == [sender : PublicKey, recipient : PublicKey, value : Value]

VARIABLES branch,    \* the headers from the genesis block to the leaf
          accounts   \* accounts[h]: map_t *accounts of the block at height h

vars == <<branch, accounts>>

Init == branch = << >> /\ accounts = << >>

Leaf == Len(branch)

(* The height of the newest record of pk at or below height h.             *)
block_get_account(h, pk) ==
    Max({0} \cup {k \in 1..h : pk \in DOMAIN accounts[k]})

account_get_value(h, pk) == IF h = 0 THEN 0 ELSE accounts[h][pk].value

account_get_delegates(h, pk) == Delegates(account_get_value(h, pk))

(* Wrong variant: the prev pointers are not followed.                      *)
FirstRecord_Newest(pk) == block_get_account(Leaf, pk)

(* The oldest record, found by following the prev pointers.                *)
FirstRecord(pk) ==
    LET first[h \in {k \in 1..Leaf : pk \in DOMAIN accounts[k]}] ==
          IF accounts[h][pk].prev = 0 THEN h ELSE first[accounts[h][pk].prev]
    IN  first[block_get_account(Leaf, pk)]

is_staking_allowed(pk) ==
    \/ Leaf = 0
    \/ LET h == block_get_account(Leaf, pk)
       IN  /\ h # 0
           /\ account_get_delegates(h, pk) # 0
           /\ \/ Leaf <= WAITING_PERIOD
              \/ FirstRecord(pk) + WAITING_PERIOD <= Leaf

(* The record of pk in the new block: the one it has there already, or one *)
(* made from the newest ancestor's.                                        *)
RecordIn(records, pk) ==
    LET h == block_get_account(Leaf, pk)
    IN  IF pk \in DOMAIN records THEN records[pk]
                                 ELSE [value |-> account_get_value(h, pk), prev |-> h]

Put(records, pk, record) ==
    [k \in DOMAIN records \cup {pk} |-> IF k = pk THEN record ELSE records[k]]

(* Wrong variants: the value is not confined to the type; a new record     *)
(* starts from nothing.                                                    *)
Credit_Unbounded(records, pk, amount) ==
    Put(records, pk, [RecordIn(records, pk) EXCEPT !.value = @ + amount])

Credit_FromNothing(records, pk, amount) ==
    LET old == IF pk \in DOMAIN records THEN records[pk].value ELSE 0
    IN  Put(records, pk, [RecordIn(records, pk) EXCEPT !.value = (old + amount) % U64])

(* The records of a new block after amount is added to the account pk.     *)
Credit(records, pk, amount) ==
    Put(records, pk, [RecordIn(records, pk) EXCEPT !.value = (@ + amount) % U64])

(* Wrong variant: the recipient is not looked up among the new records.    *)
Transfer_Overwrite(records, txn) ==
    LET debited == Credit(records, txn.sender, - txn.value)
    IN  Credit(Restrict(debited, DOMAIN debited \ {txn.recipient}), txn.recipient, txn.value)

Transfer(records, txn) ==
    Credit(Credit(records, txn.sender, - txn.value), txn.recipient, txn.value)

(* are_transactions_valid: the coinbase first, then every transaction.     *)
(* The test value < 0 on the sender's uint64_t never fails, so the result  *)
(* is always true and only the records matter.                             *)
Records(pk, txns) ==
    LET after[i \in 0..Len(txns)] ==
          IF i = 0 THEN Credit(<< >>, pk, COINBASE_TRANSACTION)
                   ELSE Transfer(after[i - 1], txns[i])
    IN  after[Len(txns)]

AppendBlock(pk, txns) ==
    /\ Leaf < MaxHeight
    /\ branch' = Append(branch, [pk |-> pk, txns |-> txns])
    /\ accounts' = Append(accounts, Records(pk, txns))

(* Wrong variant: the creator does not truncate the number to uint32_t.    *)
OwnDelegates_Untruncated(pk) ==
    LET h == block_get_account(Leaf, pk)
    IN  IF Leaf = 0 THEN 1 ELSE account_get_value(h, pk) \div DELEGATE_VALUE

(* The number of delegates among which a creator picks its best one.       *)
OwnDelegates(pk) ==
    LET h == block_get_account(Leaf, pk)
    IN  IF Leaf = 0 THEN 1 ELSE account_get_delegates(h, pk)

CanCreate(pk, delegate) ==
    /\ is_staking_allowed(pk)
    /\ delegate < OwnDelegates(pk)

CanReceive(pk, delegate) ==
    /\ is_staking_allowed(pk)
    /\ LET h == block_get_account(Leaf, pk)
       IN  h # 0 => delegate < account_get_delegates(h, pk)

block_create(pk, txns) ==
    /\ \E delegate \in 0..(OwnDelegates(pk) - 1) : CanCreate(pk, delegate)
    /\ AppendBlock(pk, txns)

(* The block comes from a peer, so a creator picked its delegate.          *)
block_create_from_tuple(pk, txns) ==
    /\ \E delegate \in 0..(OwnDelegates(pk) - 1) : CanReceive(pk, delegate)
    /\ AppendBlock(pk, txns)

(* main gives the genesis block an empty list.                             *)
Payload == IF Leaf = 0 THEN {<< >>} ELSE BoundedSeq(Txn, MaxTxns(Leaf + 1))

Next == \E pk \in PublicKey, txns \in Payload :
            \/ block_create(pk, txns)
            \/ block_create_from_tuple(pk, txns)

Spec == Init /\ [][Next]_vars

-----------------------------------------------------------------------------
Record == [value : 0..(U64 - 1), prev : 0..(MaxHeight - 1)]

TypeOK ==
    /\ branch \in Seq([pk : PublicKey, txns : Seq(Txn)])
    /\ Len(branch) <= MaxHeight
    /\ accounts \in Seq(UNION {[S -> Record] : S \in SUBSET PublicKey})
    /\ Len(accounts) = Leaf

(* Looked up from any block, the newest record of an account holds what    *)
(* the branch up to that block says.  The records are built in place,      *)
(* debit before credit, for sender, recipient and creator that may         *)
(* coincide, from records of blocks further down: each of these is a place *)
(* to lose or to double a value.                                           *)
RecordsMatchBranch ==
    \A h \in 1..Leaf, pk \in PublicKey :
        account_get_value(block_get_account(h, pk), pk)
            = Balance(SubSeq(branch, 1, h), pk)

(* Transactions move value and only the coinbase makes it: the accounts    *)
(* together hold one coinbase per block, up to the width of the type.      *)
SupplyConserved ==
    FoldFunction(+, 0, [pk \in PublicKey |->
                          account_get_value(block_get_account(Leaf, pk), pk)]) % U64
        = (COINBASE_TRANSACTION * Leaf) % U64

(* The chain of prev pointers leads from the newest record of an account   *)
(* to the block that touched it first, by which is_staking_allowed judges  *)
(* its age, whichever blocks, or transactions of one block, touched it     *)
(* since and whatever its value was meanwhile.                             *)
AccountAge ==
    \A pk \in PublicKey :
        HasAccount(branch, pk) => FirstRecord(pk) = Min(TouchedAt(branch, pk))

(* A block that its creator can build is not refused by the nodes that     *)
(* receive it: creator and receiver must agree on the age and on the       *)
(* number of delegates, truncated to uint32_t on both sides.               *)
CreatedIsAccepted ==
    \A pk \in PublicKey, delegate \in 0..(U32 - 1) :
        CanCreate(pk, delegate) => CanReceive(pk, delegate)

-----------------------------------------------------------------------------
(* What comments of the program say and block.c does not do.               *)

(* block.c: a transaction is valid only if the sender has enough value.    *)
(* Then no account ever spends more than it got.                           *)
NoOverdraft == \A pk \in PublicKey : NetWorth(branch, pk) >= 0
=============================================================================
