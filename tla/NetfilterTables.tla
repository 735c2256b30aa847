--------------------------- MODULE NetfilterTables ---------------------------
(* The fix-ups of netfilter tables after generation or mutation                *)
(* (sys-linux-specifications/init_iptables.go).  An offset is counted in units  *)
(* of alignment; the sizes of entries are what the mutation changes.           *)
EXTENDS Integers, Sequences, FiniteSets, FiniteSetsExt

CONSTANTS
    MaxEntries,     \* the entries of a table are cut at this number
    EntrySizes      \* the sizes an entry may have
ASSUME EntriesAssumption == MaxEntries \in Nat \ {0} /\ EntrySizes \subseteq Nat \ {0}

(* The ipt tables and the arp table: the hooks they use and how many entries    *)
(* the description gives them.                                                *)
IptHooks == {"pre_routing", "local_in", "forward", "local_out", "post_routing"}
ArpHooks == {"in", "out", "forward"}
UsedHooks ==
    [filter |-> {"local_in", "forward", "local_out"},
     nat |-> IptHooks \ {"forward"}, mangle |-> IptHooks,
     raw |-> {"pre_routing", "local_out"}, security |-> {"local_in", "forward", "local_out"},
     arp |-> ArpHooks]
NumEntries == [filter |-> 3, nat |-> 4, mangle |-> 5, raw |-> 2, security |-> 3, arp |-> 3]
Hooks(table) == IF table = "arp" THEN ArpHooks ELSE IptHooks
Unused == -1

\* The sum of the first n sizes of a sequence.
SizeBefore(sizes, n) == FoldSet(LAMBDA i, sum : sizes[i] + sum, 0, 1 .. n)
Underflow(sizes) == SizeBefore(sizes, Len(sizes))
Offsets(sizes) == {SizeBefore(sizes, i - 1) : i \in 1 .. Len(sizes)}

(* What genOffset can return: any entry and, once in a while, the underflow.    *)
genOffset(sizes) == Offsets(sizes) \cup {Underflow(sizes)}

(* The jump of a standard target: a verdict, a negative value of the flags, is  *)
(* kept; anything else, 0 included, becomes an offset.  Two of the five are     *)
(* named, drop and accept.  NoJump marks an entry whose target is another one.  *)
Verdicts == {-1, -2}
NoJump == -99
\* A mutant: whatever is negative is taken for a verdict.
AnyNegativeKept(sizes, jump) == IF jump < 0 THEN {jump} ELSE genOffset(sizes)
JumpOffsets(sizes, jump) ==
    IF jump \in Verdicts \cup {NoJump} THEN {jump} ELSE genOffset(sizes)

(* What the prog library hands over, before the fix-up.                        *)
Jumps == Verdicts \cup {NoJump, -9, 0}
NumEntriesOf(table) == Min({NumEntries[table], MaxEntries})
KindOf(table) == IF table = "arp" THEN "arpt_replace" ELSE "ipt_replace"
RawTables(table) ==
    [kind : {KindOf(table)}, table : {table}, sizes : [1 .. NumEntriesOf(table) -> EntrySizes],
     jumps : [1 .. NumEntriesOf(table) -> Jumps]]

(* generateNetfilterTable: every hook the table uses gets an offset, every      *)
(* underflow the end of the entries, and the jumps are redirected.             *)
generateNetfilterTable(raw) ==
    LET hooks == UsedHooks[raw.table]
        end == Underflow(raw.sizes)
    IN  {[kind |-> raw.kind, table |-> raw.table, sizes |-> raw.sizes, jumps |-> jumps,
          hooks |-> [k \in Hooks(raw.table) |-> IF k \in hooks THEN used[k] ELSE Unused],
          underflows |-> [k \in Hooks(raw.table) |-> IF k \in hooks THEN end ELSE Unused]] :
            used \in [hooks -> genOffset(raw.sizes)],
            jumps \in {j \in [DOMAIN raw.jumps -> genOffset(raw.sizes) \cup Jumps] :
                          \A i \in DOMAIN j : j[i] \in JumpOffsets(raw.sizes, raw.jumps[i])}}

(* The ebtables: hooks by number, the chains as their numbers of entries.  The  *)
(* pointer to the chains may be null or squashed by the mutation.              *)
EbtHooks == 0 .. 5
ValidHooks == [ebt_filter |-> {1, 2, 3}, ebt_nat |-> {0, 3, 4}, ebt_broute |-> {5}]
EntriesBase == 1000                     \* the address the entries are given
ChainSize(entries) == 3 + 2 * entries   \* a header and the entries
TableSize == 10
RawEbtables(table) ==
    [kind : {"ebt_replace"}, table : {table}, pointer : {"chains"},
     chains : UNION {[1 .. n -> 0 .. 2] : n \in 3 .. 4}] \cup
    [kind : {"ebt_replace"}, table : {table}, pointer : {"null", "squashed"}, chains : {<<>>}]

ChainOffset(chains, i) == SizeBefore([j \in DOMAIN chains |-> ChainSize(chains[j])], i - 1)
\* Valid hooks below a hook: the chains they have used up.
Rank(table, hook) == Cardinality({h \in ValidHooks[table] : h < hook})
\* A mutant: every hook gets the first chain.
SameChain(raw, hook) == EntriesBase + ChainOffset(raw.chains, 1)
HookAddress(raw, hook) ==
    IF Rank(raw.table, hook) < Len(raw.chains)
    THEN EntriesBase + ChainOffset(raw.chains, Rank(raw.table, hook) + 1) ELSE EntriesBase
Counters(chains) == [i \in DOMAIN chains |-> SizeBefore(chains, i - 1)]
StaleEbtables(raw) ==
    [kind |-> "ebt_replace", table |-> raw.table, pointer |-> raw.pointer, chains |-> raw.chains,
     counters |-> [i \in DOMAIN raw.chains |-> 0], nentries |-> 0,
     hooks |-> [h \in EbtHooks |-> 0], len |-> 0]
generateEbtables(raw) ==
    IF raw.pointer # "chains" THEN StaleEbtables(raw)
    ELSE [StaleEbtables(raw) EXCEPT
             !.counters = Counters(raw.chains),
             !.nentries = SizeBefore(raw.chains, Len(raw.chains)),
             !.hooks = [h \in EbtHooks |->
                           IF h \in ValidHooks[raw.table] THEN HookAddress(raw, h) ELSE 0]]

(* neutralizeEbtables: the length passed to setsockopt.                        *)
EntriesSize(arg) ==
    IF arg.pointer = "squashed" THEN 1 ELSE ChainOffset(arg.chains, Len(arg.chains) + 1)
neutralizeEbtables(arg) ==
    IF arg.pointer = "null" THEN arg ELSE [arg EXCEPT !.len = TableSize + EntriesSize(arg)]
=============================================================================
