----------------------------- MODULE Transfers -----------------------------
(***************************************************************************)
(* TransferTransaction: three lists that the add methods merge into, the   *)
(* body in which the transfers of fungible tokens and of NFTs are grouped  *)
(* by token, and the way back. The IDs are numbers, as compare() orders    *)
(* them.                                                                   *)
(***************************************************************************)
EXTENDS Wire, Sequences, SequencesExt, FiniteSetsExt, TLC

CONSTANTS AddCalls,     \* the calls of add methods the application makes
          Approvals,    \* the entries whose approval it sets, as such calls
          MaxCalls      \* bound: calls before the freeze

ASSUME AddCallsAssumption ==
  AddCalls \subseteq
    [op : {"u2u"}, account : Int, amount : Int, approved : BOOLEAN]
    \cup [op : {"token"}, token : Int, account : Int, amount : Int,
          approved : BOOLEAN]
    \cup [op : {"decimals"}, token : Int, account : Int, amount : Int,
          decimals : Int]
    \cup [op : {"nft"}, token : Int, serial : Int, sender : Int,
          receiver : Int, approved : BOOLEAN]
ASSUME MaxCallsAssumption == MaxCalls \in Nat

VARIABLES u2u, tokens, nfts,   \* _U2UTransfers, _tokenTransfers, _nftTransfers
          asked,               \* the calls so far, those too that threw
                               \* after they had changed something
          made,               \* how far the transaction is
          moved,               \* the body at the freeze
          movedAgain                \* the one made after fromBytes()

transferVars == <<u2u, tokens, nfts, asked, made, moved, movedAgain>>

Where(list, Is(_)) == {i \in DOMAIN list : Is(list[i])}

\* ---- The add methods

\* _addU2UTransfer(): the amount joins the account's entry, whose approval
\* stays what it was.
AddU2UTransfer(list, c) ==
  LET at == Where(list, LAMBDA t : t.account = c.account) IN
  IF at = {}
  THEN Append(list, [account |-> c.account, amount |-> c.amount,
                     approved |-> c.approved])
  ELSE [list EXCEPT ![Min(at)].amount = @ + c.amount]

\* _addTokenTransfer(): the same for a token and an account, and the entry
\* forgets the decimals it expected.
AddTokenTransfer(list, c) ==
  LET at == Where(list, LAMBDA t : t.token = c.token /\ t.account = c.account)
  IN  IF at = {}
      THEN Append(list, [token |-> c.token, account |-> c.account,
                         amount |-> c.amount, decimals |-> Null,
                         approved |-> c.approved])
      ELSE [list EXCEPT ![Min(at)].amount = @ + c.amount,
                        ![Min(at)].decimals = Null]

\* addTokenTransferWithDecimals() goes through the entries of the token in their
\* order, each of which takes the decimals, and the one of the account the amount;
\* it throws at the first that expects other ones.
Clashes(list, c) ==
  Where(list, LAMBDA t : /\ t.token = c.token
                         /\ t.decimals \notin {Null, c.decimals})
BeforeClash(list, c) == IF Clashes(list, c) = {} THEN DOMAIN list
                   ELSE {i \in DOMAIN list : i < Min(Clashes(list, c))}
Paid(list, c) ==
  Where(list, LAMBDA t : t.token = c.token /\ t.account = c.account)
    \cap BeforeClash(list, c)

\* Mutant: the entry that expects other decimals is changed before it is looked
\* at.
WithDecimals_Late(list, c) ==
  [i \in DOMAIN list |->
     IF list[i].token # c.token THEN list[i]
     ELSE [list[i] EXCEPT
             !.decimals = c.decimals,
             !.amount = @ + IF list[i].account = c.account
                            THEN c.amount ELSE 0]]

WithDecimals(list, c) ==
  [i \in DOMAIN list |->
     IF i \notin BeforeClash(list, c) \/ list[i].token # c.token THEN list[i]
     ELSE [list[i] EXCEPT
             !.decimals = c.decimals,
             !.amount = @ + IF i \in Paid(list, c) THEN c.amount ELSE 0]]

AddTokenTransferWithDecimals(list, c) ==
  IF Paid(list, c) # {} THEN WithDecimals(list, c)
  ELSE Append(WithDecimals(list, c),
              [token |-> c.token, account |-> c.account, amount |-> c.amount,
               decimals |-> c.decimals, approved |-> FALSE])

\* _addNftTransfer(): a second transfer of an NFT replaces the parties.
AddNftTransfer(list, c) ==
  LET at == Where(list, LAMBDA t : t.token = c.token /\ t.serial = c.serial)
  IN  IF at = {}
      THEN Append(list, [token |-> c.token, serial |-> c.serial,
                         sender |-> c.sender, receiver |-> c.receiver,
                         approved |-> c.approved])
      ELSE [list EXCEPT ![Min(at)].sender = c.sender,
                        ![Min(at)].receiver = c.receiver]

\* ---- The body

TokenOrder(a, b) == \/ a.token < b.token
                    \/ a.token = b.token /\ a.account < b.account
NftOrder(a, b) ==
  \/ a.sender < b.sender
  \/ a.sender = b.sender /\ a.receiver < b.receiver
  \/ a.sender = b.sender /\ a.receiver = b.receiver /\ a.serial < b.serial
AccountOrder(a, b) == a.account < b.account

\* Array.prototype.sort(): the arrangement by the order, in which equals stay as
\* they were.
Arrangements(n) ==
  {p \in [1..n -> 1..n] : \A w \in 1..n : \E v \in 1..n : p[v] = w}
Sorts(list, Before(_, _)) ==
  {[k \in DOMAIN list |-> list[p[k]]] :
     p \in {p \in Arrangements(Len(list)) :
              \A k, l \in DOMAIN list : k < l =>
                \/ Before(list[p[k]], list[p[l]])
                \/ ~Before(list[p[l]], list[p[k]]) /\ p[k] < p[l]}}

TokenToProtobuf(t) == [account |-> t.account, amount |-> t.amount,
                       approval |-> t.approved]
NftToProtobuf(n) == [sender |-> n.sender, receiver |-> n.receiver,
                     serial |-> n.serial, approval |-> n.approved]

WithToken(groups, k, t) ==
  [groups EXCEPT ![k].transfers = Append(@, TokenToProtobuf(t))]
WithNft(groups, k, n) ==
  [groups EXCEPT ![k].nfts = Append(@, NftToProtobuf(n))]
TokenGroup(t) == [token |-> t.token, decimals |-> t.decimals,
                  transfers |-> <<TokenToProtobuf(t)>>, nfts |-> <<>>]
NftGroup(n) == [token |-> n.token, decimals |-> Null, transfers |-> <<>>,
                nfts |-> <<NftToProtobuf(n)>>]
JointGroup(t, n) == [TokenGroup(t) EXCEPT !.nfts = <<NftToProtobuf(n)>>]

\* The group that the next transfer of a token joins: while both lists last,
\* only the last group is looked at; then, the last one of the token.
Joins(groups, token, both) ==
  LET at == Where(groups, LAMBDA g : g.token = token) IN
  IF at = {} \/ (both /\ groups[Len(groups)].token # token) THEN 0 ELSE Max(at)

\* One step of the loop of _makeTransactionData(), after i transfers of ts and j
\* of ns.
GroupStep(ts, ns, l) ==
  LET t == ts[l.i + 1]
      n == ns[l.j + 1]
      both == l.i < Len(ts) /\ l.j < Len(ns)
      a == IF l.i < Len(ts) THEN Joins(l.groups, t.token, both) ELSE 0
      b == IF l.j < Len(ns) THEN Joins(l.groups, n.token, both) ELSE 0
      taken(di, dj, groups) ==
        [i |-> l.i + di, j |-> l.j + dj, groups |-> groups]
  IN  CASE l.i = Len(ts) /\ l.j = Len(ns) -> l
        [] a # 0 -> taken(1, 0, WithToken(l.groups, a, t))
        [] a = 0 /\ b # 0 -> taken(0, 1, WithNft(l.groups, b, n))
        [] a = 0 /\ b = 0 /\ both /\ t.token = n.token ->
             taken(1, 1, Append(l.groups, JointGroup(t, n)))
        [] a = 0 /\ b = 0 /\ l.i < Len(ts) /\ (both => t.token < n.token) ->
             taken(1, 0, Append(l.groups, TokenGroup(t)))
        [] OTHER -> taken(0, 1, Append(l.groups, NftGroup(n)))

Loop(ts, ns) ==
  LET after[k \in 0..(Len(ts) + Len(ns))] ==
        IF k = 0 THEN [i |-> 0, j |-> 0, groups |-> <<>>]
        ELSE GroupStep(ts, ns, after[k - 1])
  IN  after
Grouped(ts, ns) == Loop(ts, ns)[Len(ts) + Len(ns)].groups

\* _makeTransactionData(), of sorted lists.
TransferMake(us, ts, ns) ==
  [transfers |-> [i \in DOMAIN us |-> TokenToProtobuf(us[i])],
   tokenTransfers |-> Grouped(ts, ns)]

\* Transfer._fromProtobuf(), TokenTransfer._fromProtobuf() and
\* TokenNftTransfer._fromProtobuf(): every entry takes what its group has.
TransferFrom(list) ==
  [i \in DOMAIN list |-> [account |-> list[i].account,
                          amount |-> list[i].amount,
                          approved |-> list[i].approval]]

TokenTransferFrom(groups) ==
  FlattenSeq([k \in DOMAIN groups |->
    [i \in DOMAIN groups[k].transfers |->
       LET t == groups[k].transfers[i] IN
       [token |-> groups[k].token, account |-> t.account,
        amount |-> t.amount, decimals |-> groups[k].decimals,
        approved |-> t.approval]]])
TokenNftTransferFrom(groups) ==
  FlattenSeq([k \in DOMAIN groups |->
    [i \in DOMAIN groups[k].nfts |->
       LET n == groups[k].nfts[i] IN
       [token |-> groups[k].token, serial |-> n.serial,
        sender |-> n.sender, receiver |-> n.receiver,
        approved |-> n.approval]]])

\* ---- Operations

TransferInit ==
  /\ u2u = <<>> /\ tokens = <<>> /\ nfts = <<>> /\ asked = <<>>
  /\ made = "open" /\ moved = Null /\ movedAgain = Null

\* An add method that returns.
Add(c) ==
  /\ made = "open" /\ Len(asked) < MaxCalls
  /\ \/ /\ c.op = "u2u"
        /\ u2u' = AddU2UTransfer(u2u, c)
        /\ UNCHANGED <<tokens, nfts>>
     \/ /\ c.op = "token"
        /\ tokens' = AddTokenTransfer(tokens, c)
        /\ UNCHANGED <<u2u, nfts>>
     \/ /\ c.op = "decimals" /\ Clashes(tokens, c) = {}
        /\ tokens' = AddTokenTransferWithDecimals(tokens, c)
        /\ UNCHANGED <<u2u, nfts>>
     \/ /\ c.op = "nft"
        /\ nfts' = AddNftTransfer(nfts, c)
        /\ UNCHANGED <<u2u, tokens>>
  /\ asked' = Append(asked, c)
  /\ UNCHANGED <<made, moved, movedAgain>>

\* addTokenTransferWithDecimals() throws, and what it did to the entries before
\* stays.
AddThrows(c) ==
  /\ made = "open" /\ Len(asked) < MaxCalls
  /\ c.op = "decimals" /\ Clashes(tokens, c) # {}
  /\ tokens' = WithDecimals(tokens, c)
  /\ tokens' # tokens
  /\ asked' = Append(asked, [c EXCEPT !.op = IF Paid(tokens, c) = {}
                                             THEN "threw" ELSE "threwPaid"])
  /\ UNCHANGED <<u2u, nfts, made, moved, movedAgain>>

\* setU2UTransferApproval(), setTokenTransferApproval(),
\* setNftTransferApproval(): not guarded.
Marked(list, at, approved) ==
  [i \in DOMAIN list |-> IF i \in at
                         THEN [list[i] EXCEPT !.approved = approved]
                         ELSE list[i]]
SetApproval(c, approved) ==
  /\ \/ /\ c.op = "u2u"
        /\ u2u' = Marked(u2u, Where(u2u, LAMBDA t : t.account = c.account),
                         approved)
        /\ u2u' # u2u
        /\ UNCHANGED <<tokens, nfts>>
     \/ /\ c.op = "token"
        /\ tokens' = Marked(tokens,
                            Where(tokens, LAMBDA t : t.token = c.token
                                                     /\ t.account = c.account),
                            approved)
        /\ tokens' # tokens
        /\ UNCHANGED <<u2u, nfts>>
     \/ /\ c.op = "nft"
        /\ nfts' = Marked(nfts, Where(nfts, LAMBDA t : t.token = c.token
                                                    /\ t.serial = c.serial),
                          approved)
        /\ nfts' # nfts
        /\ UNCHANGED <<u2u, tokens>>
  /\ UNCHANGED <<asked, made, moved, movedAgain>>

\* The lists are sorted in place.
SortLists ==
  /\ u2u' \in Sorts(u2u, AccountOrder)
  /\ tokens' \in Sorts(tokens, TokenOrder)
  /\ nfts' \in Sorts(nfts, NftOrder)

FreezeTransfers ==
  /\ made = "open"
  /\ SortLists
  /\ moved' = TransferMake(u2u', tokens', nfts')
  /\ made' = "frozen"
  /\ UNCHANGED <<asked, movedAgain>>

\* fromBytes(toBytes()).
RereadTransfers ==
  /\ made = "frozen"
  /\ u2u' = TransferFrom(moved.transfers)
  /\ tokens' = TokenTransferFrom(moved.tokenTransfers)
  /\ nfts' = TokenNftTransferFrom(moved.tokenTransfers)
  /\ made' = "reread"
  /\ UNCHANGED <<asked, moved, movedAgain>>

\* The body of what fromBytes() returned.
RemakeTransfers ==
  /\ made = "reread"
  /\ SortLists
  /\ movedAgain' = TransferMake(u2u', tokens', nfts')
  /\ made' = "remade"
  /\ UNCHANGED <<asked, moved>>

TransferNext ==
  \/ \E c \in AddCalls : Add(c) \/ AddThrows(c)
  \/ \E c \in Approvals : SetApproval(c, TRUE)
  \/ FreezeTransfers
  \/ RereadTransfers
  \/ RemakeTransfers

TransferSpec == TransferInit /\ [][TransferNext]_transferVars

\* ---- Properties

\* The sum of the amounts of the calls at some positions.
Sum(calls, at) ==
  LET sum[k \in 0..Len(calls)] ==
        IF k = 0 THEN 0
        ELSE sum[k - 1] + IF k \in at THEN calls[k].amount ELSE 0
  IN  sum[Len(calls)]

\* The calls that added to an account or to a token and an account, a call that
\* threw afterwards among them, those for an NFT, and those that set decimals.
PaidOps == {"token", "decimals", "threwPaid"}
DecimalsOps == {"decimals", "threw", "threwPaid"}
U2UCalls(calls, c) ==
  Where(calls, LAMBDA d : d.op = "u2u" /\ d.account = c.account)
TokenCalls(calls, c) ==
  Where(calls, LAMBDA d : d.op \in PaidOps
                          /\ d.token = c.token /\ d.account = c.account)
NftCalls(calls, c) ==
  Where(calls, LAMBDA d : d.op = "nft" /\ d.token = c.token
                          /\ d.serial = c.serial)
DecimalsCalls(calls, token) ==
  Where(calls, LAMBDA d : d.op \in DecimalsOps /\ d.token = token)

\* The last call at some positions; and the last to give the decimals of a token
\* without throwing, or a later one that threw.
IsLast(m, at) == m \in at /\ \A k \in at : k <= m
GivesDecimals(m, calls, token) ==
  /\ m \in DecimalsCalls(calls, token)
  /\ \A k \in DecimalsCalls(calls, token) : calls[k].op = "decimals" => k <= m

\* Where the groups have the transfers of a token to or from an account, and
\* those of an NFT.
TokenPlaces(groups, c) ==
  {p \in UNION {{k} \X DOMAIN groups[k].transfers : k \in DOMAIN groups} :
     /\ groups[p[1]].token = c.token
     /\ groups[p[1]].transfers[p[2]].account = c.account}
NftPlaces(groups, c) ==
  {p \in UNION {{k} \X DOMAIN groups[k].nfts : k \in DOMAIN groups} :
     /\ groups[p[1]].token = c.token
     /\ groups[p[1]].nfts[p[2]].serial = c.serial}

\* However the calls were merged, sorted and grouped, the body has for every
\* account, and for every account and token, one transfer of the sum of the
\* amounts that the application asked for; and one of every NFT it named,
\* between the parties that it named last. The sum has the amount of a call with
\* decimals that threw, too, when the entry of the account came before the one
\* that expected other decimals.
MovesWhatWasAsked(body, calls) ==
  /\ \A c \in Range(calls) : c.op = "u2u" =>
       \E i \in DOMAIN body.transfers :
         /\ Where(body.transfers, LAMBDA t : t.account = c.account) = {i}
         /\ body.transfers[i].amount = Sum(calls, U2UCalls(calls, c))
  /\ \A c \in Range(calls) : c.op \in PaidOps =>
       \E p \in TokenPlaces(body.tokenTransfers, c) :
         /\ TokenPlaces(body.tokenTransfers, c) = {p}
         /\ body.tokenTransfers[p[1]].transfers[p[2]].amount
              = Sum(calls, TokenCalls(calls, c))
  /\ \A c \in Range(calls) : c.op = "nft" =>
       \E p \in NftPlaces(body.tokenTransfers, c), m \in NftCalls(calls, c) :
         /\ NftPlaces(body.tokenTransfers, c) = {p}
         /\ IsLast(m, NftCalls(calls, c))
         /\ body.tokenTransfers[p[1]].nfts[p[2]].sender = calls[m].sender
         /\ body.tokenTransfers[p[1]].nfts[p[2]].receiver = calls[m].receiver

\* A token has one group in the body, and with it one value of the expected
\* decimals, unless the transaction moves a fungible token and NFTs of two
\* others: NFTs are sorted by their parties and not by token, and only the last
\* group is looked at while fungible transfers are left.
OneGroupPerToken(body, calls) ==
  (\E k, l \in DOMAIN body.tokenTransfers :
     k # l /\ body.tokenTransfers[k].token = body.tokenTransfers[l].token) =>
  \E c, d, e \in Range(calls) :
    /\ c.op \in PaidOps /\ d.op = "nft" /\ e.op = "nft"
    /\ c.token # d.token /\ c.token # e.token /\ d.token # e.token

\* The decimals that the body expects of a token are the last that the
\* application gave for it, or those of a later call that threw.
DecimalsAsGiven(body, calls) ==
  \A k \in DOMAIN body.tokenTransfers :
    LET g == body.tokenTransfers[k] IN
    g.decimals # Null =>
      \E m \in DOMAIN calls :
        /\ GivesDecimals(m, calls, g.token)
        /\ calls[m].decimals = g.decimals

Unmarked(body) ==
  [transfers |-> [i \in DOMAIN body.transfers |->
                    [body.transfers[i] EXCEPT !.approval = FALSE]],
   tokenTransfers |->
     [k \in DOMAIN body.tokenTransfers |->
        [body.tokenTransfers[k] EXCEPT
           !.transfers = [i \in DOMAIN @ |-> [@[i] EXCEPT !.approval = FALSE]],
           !.nfts = [i \in DOMAIN @ |-> [@[i] EXCEPT !.approval = FALSE]]]]]

\* Two NFTs that the sort does not tell apart.
Tied(list) ==
  \E i, j \in DOMAIN list :
    i # j /\ ~NftOrder(list[i], list[j]) /\ ~NftOrder(list[j], list[i])

\* Decoding and encoding again gives the same body, group by group and entry
\* by entry, but for approvals that were set afterwards and unless NFTs of two
\* tokens have the same serial number and parties: fromBytes() has these in the
\* order of the groups, which need not be the order they were added in.
RoundTrip == Tied(nfts) \/ Unmarked(movedAgain) = Unmarked(moved)

BodyFaithful(body, calls) ==
  /\ MovesWhatWasAsked(body, calls)
  /\ OneGroupPerToken(body, calls)
  /\ DecimalsAsGiven(body, calls)

\* The body of a transfer is what the application asked for, amounts, NFTs and
\* decimals, and what a call that threw because of the decimals had already done;
\* it decodes to an object whose body is so too, and the same.
TransfersFaithful ==
  /\ made # "open" => BodyFaithful(moved, asked)
  /\ made = "remade" => BodyFaithful(movedAgain, asked) /\ RoundTrip
=============================================================================
