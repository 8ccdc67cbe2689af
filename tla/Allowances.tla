----------------------------- MODULE Allowances -----------------------------
(***************************************************************************)
(* AccountAllowanceApproveTransaction and                                  *)
(* AccountAllowanceDeleteTransaction: the allowances that their methods    *)
(* collect and merge, the body, and the way back. A transaction is of one  *)
(* kind, "approve" or "delete".                                            *)
(***************************************************************************)
EXTENDS Wire, Sequences, SequencesExt, FiniteSetsExt

CONSTANTS GrantCalls,    \* the calls the application makes, by kind
          MaxGrants      \* bound: calls before the freeze

\* The calls: IDs and numbers, with an owner and a delegate that may be left
\* out.
GrantCall ==
  [op : {"serial"}, token : Int, serial : Int, owner : Int \cup {Null},
   spender : Int, delegating : Int \cup {Null}]
  \cup [op : {"all"}, token : Int, owner : Int \cup {Null}, spender : Int,
        all : BOOLEAN]
  \cup [op : {"u2u"}, owner : Int \cup {Null}, spender : Int,
        amount : Int \cup {Null}]
  \cup [op : {"token"}, token : Int, owner : Int \cup {Null}, spender : Int,
        amount : Int \cup {Null}]

ASSUME GrantCallsAssumption == GrantCalls \subseteq GrantCall
ASSUME GrantNullAssumption == Null \notin BOOLEAN /\ Null \notin Seq(Int)
ASSUME MaxGrantsAssumption == MaxGrants \in Nat

VARIABLES kind,       \* "approve" or "delete"
          u2uGrants, tokenGrants, nftGrants,   \* the three lists
          requested,  \* the calls so far
          allowed,    \* the body at the freeze, Null before
          reparsed    \* the object is the result of fromBytes()

allowanceVars == <<kind, u2uGrants, tokenGrants, nftGrants, requested,
                   allowed, reparsed>>

\* ---- The methods

\* The serial number joins the first allowance at one of the indices at; an
\* allowance of all serials has no list to join.
Joined(list, at, c) ==
  [list EXCEPT ![Min(at)].serials = IF @ = Null THEN Null
                                    ELSE Append(@, c.serial)]

\* Mutant: the spender is not compared.
ApproveTokenNftAllowance_AnySpender(list, c) ==
  LET at == {i \in DOMAIN list : list[i].token = c.token}
  IN  IF at # {} THEN Joined(list, at, c)
      ELSE Append(list, [token |-> c.token, owner |-> c.owner,
                         spender |-> c.spender, serials |-> <<c.serial>>,
                         all |-> FALSE, delegating |-> c.delegating])

\* _approveTokenNftAllowance(): token and spender decide, the owner and the
\* delegating spender do not.
ApproveTokenNftAllowance(list, c) ==
  LET at == {i \in DOMAIN list : /\ list[i].token = c.token
                                 /\ list[i].spender # Null
                                 /\ list[i].spender = c.spender}
  IN  IF at # {} THEN Joined(list, at, c)
      ELSE Append(list, [token |-> c.token, owner |-> c.owner,
                         spender |-> c.spender, serials |-> <<c.serial>>,
                         all |-> FALSE, delegating |-> c.delegating])

\* _approveAllTokenNftAllowance(): approve, or withdraw, all serials.
ApproveAllTokenNftAllowance(list, c) ==
  Append(list, [token |-> c.token, owner |-> c.owner, spender |-> c.spender,
                serials |-> Null, all |-> c.all, delegating |-> Null])

\* deleteAllTokenNftAllowances(): the token alone decides.
DeleteAllTokenNftAllowances(list, c) ==
  LET at == {i \in DOMAIN list : list[i].token = c.token} IN
  IF at # {} THEN Joined(list, at, c)
  ELSE Append(list, [token |-> c.token, owner |-> c.owner, spender |-> Null,
                     serials |-> <<c.serial>>, all |-> FALSE,
                     delegating |-> Null])

\* U2UAllowance and TokenAllowance are added as they are.
ApproveU2UAllowance(list, c) ==
  Append(list, [owner |-> c.owner, spender |-> c.spender,
                amount |-> c.amount])
ApproveTokenAllowance(list, c) ==
  Append(list, [token |-> c.token, owner |-> c.owner, spender |-> c.spender,
                amount |-> c.amount])

\* ---- The body

\* TokenNftAllowance._toProtobuf(): the wrapper approvedForAll only where there
\* is no list.
NftAllowanceToProtobuf(a) ==
  [token |-> a.token, owner |-> a.owner, spender |-> a.spender,
   approvedForAll |-> IF a.serials = Null THEN a.all ELSE Null,
   serials |-> IF a.serials = Null THEN <<>> ELSE a.serials,
   delegating |-> a.delegating]

\* TokenNftAllowance._fromProtobuf().
NftAllowanceFrom(b) ==
  LET all == b.approvedForAll # Null /\ b.approvedForAll = TRUE IN
  [token |-> b.token, owner |-> b.owner, spender |-> b.spender,
   serials |-> IF all THEN Null ELSE b.serials,
   all |-> all, delegating |-> b.delegating]
\* U2UAllowance and TokenAllowance, both ways: the amount is a scalar.
AmountToProtobuf(a) == [a EXCEPT !.amount = Scalar(@)]
AmountFrom(b) == b

AllowanceMake ==
  [cryptoAllowances |-> [i \in DOMAIN u2uGrants |->
                           AmountToProtobuf(u2uGrants[i])],
   tokenAllowances |-> [i \in DOMAIN tokenGrants |->
                          AmountToProtobuf(tokenGrants[i])],
   nftAllowances |-> [i \in DOMAIN nftGrants |->
                        NftAllowanceToProtobuf(nftGrants[i])]]

\* ---- Operations

AllowanceInit ==
  /\ kind \in {"approve", "delete"}
  /\ u2uGrants = <<>> /\ tokenGrants = <<>> /\ nftGrants = <<>>
  /\ requested = <<>> /\ allowed = Null /\ reparsed = FALSE

Allow(c) ==
  /\ allowed = Null /\ Len(requested) < MaxGrants
  /\ \/ /\ kind = "approve" /\ c.op = "u2u"
        /\ u2uGrants' = ApproveU2UAllowance(u2uGrants, c)
        /\ UNCHANGED <<tokenGrants, nftGrants>>
     \/ /\ kind = "approve" /\ c.op = "token"
        /\ tokenGrants' = ApproveTokenAllowance(tokenGrants, c)
        /\ UNCHANGED <<u2uGrants, nftGrants>>
     \/ /\ kind = "approve" /\ c.op = "serial"
        /\ nftGrants' = ApproveTokenNftAllowance(nftGrants, c)
        /\ UNCHANGED <<u2uGrants, tokenGrants>>
     \/ /\ kind = "approve" /\ c.op = "all"
        /\ nftGrants' = ApproveAllTokenNftAllowance(nftGrants, c)
        /\ UNCHANGED <<u2uGrants, tokenGrants>>
     \/ /\ kind = "delete" /\ c.op = "serial"
        /\ nftGrants' = DeleteAllTokenNftAllowances(nftGrants, c)
        /\ UNCHANGED <<u2uGrants, tokenGrants>>
  /\ requested' = Append(requested, c)
  /\ UNCHANGED <<kind, allowed, reparsed>>

FreezeAllowances ==
  /\ allowed = Null
  /\ allowed' = AllowanceMake
  /\ UNCHANGED <<kind, u2uGrants, tokenGrants, nftGrants, requested, reparsed>>

ReparseAllowances ==
  /\ allowed # Null /\ ~reparsed
  /\ u2uGrants' = [i \in DOMAIN allowed.cryptoAllowances |->
                     AmountFrom(allowed.cryptoAllowances[i])]
  /\ tokenGrants' = [i \in DOMAIN allowed.tokenAllowances |->
                       AmountFrom(allowed.tokenAllowances[i])]
  /\ nftGrants' = [i \in DOMAIN allowed.nftAllowances |->
                     NftAllowanceFrom(allowed.nftAllowances[i])]
  /\ reparsed' = TRUE
  /\ UNCHANGED <<kind, requested, allowed>>

AllowanceNext ==
  \/ \E c \in GrantCalls : Allow(c)
  \/ FreezeAllowances
  \/ ReparseAllowances

AllowanceSpec == AllowanceInit /\ [][AllowanceNext]_allowanceVars

\* ---- Properties

\* What one allowance of the body says of single NFTs.
Says(b) == {[token |-> b.token, serial |-> s, owner |-> b.owner,
             spender |-> b.spender, delegating |-> b.delegating] :
              s \in Range(b.serials)}
Asks(c) == [token |-> c.token, serial |-> c.serial, owner |-> c.owner,
            spender |-> IF kind = "delete" THEN Null ELSE c.spender,
            delegating |-> IF kind = "delete" THEN Null ELSE c.delegating]

\* The calls that a merge does not tell apart from c.
Confused(c) ==
  \E d \in Range(requested) :
    /\ d.op \in {"serial", "all"} /\ d.token = c.token
    /\ kind = "approve" => d.spender = c.spender
    /\ d.op = "all" \/ d.owner # c.owner
       \/ (kind = "approve" /\ d.delegating # c.delegating)

\* The body grants, or withdraws, each NFT for the owner, spender and delegate
\* that were named with it, and grants no other NFT. The merge does not look at
\* the owner (nor, when withdrawing, at anything but the token): calls that
\* differ only there, or that follow a grant of all serials, are confused, and
\* a serial number can end up under another owner or be dropped.
GrantsWhatWasAsked ==
  allowed # Null =>
    LET said == UNION {Says(allowed.nftAllowances[i]) :
                         i \in DOMAIN allowed.nftAllowances}
        calls == {c \in Range(requested) : c.op = "serial"}
    IN  /\ \A c \in calls : Confused(c) \/ Asks(c) \in said
        /\ \A g \in said : \E c \in calls :
             c.token = g.token /\ c.serial = g.serial
             /\ (Confused(c) \/ Asks(c) = g)

\* Decoding and encoding again gives the same body, but for the withdrawal of
\* all serials, whose wrapper, approvedForAll = false, is not written again.
AllowancesRoundTrip ==
  reparsed =>
    /\ AllowanceMake.cryptoAllowances = allowed.cryptoAllowances
    /\ AllowanceMake.tokenAllowances = allowed.tokenAllowances
    /\ \A i \in DOMAIN allowed.nftAllowances :
         \/ AllowanceMake.nftAllowances[i] = allowed.nftAllowances[i]
         \/ allowed.nftAllowances[i].approvedForAll = FALSE

\* The body of an approval is what the application asked for, and decodes to an
\* object with the same body, with the exceptions that the two parts name.
AllowancesFaithful == GrantsWhatWasAsked /\ AllowancesRoundTrip
=============================================================================
