--------------------------------- MODULE Pmp ---------------------------------
(***************************************************************************)
(* arch/riscv/core/core_pmp.c: physical memory protection.  Contexts       *)
(* (struct k_pmp) collect the regions a user may access; one of them at a  *)
(* time is written to the dynamic entries of the hardware, below the       *)
(* static entries for the program.  arch_buffer_validate says in advance   *)
(* what the hardware would allow.                                          *)
(*                                                                         *)
(* Addresses and sizes count words of 4 bytes, the unit of pmpaddr; a      *)
(* region that is not made of words is one of size 0, as both are refused. *)
(***************************************************************************)
EXTENDS Integers, Sequences, FiniteSetsExt

CONSTANTS
  Slots,        \* CONFIG_PMP_SLOT
  MemBits,      \* memory has Pow2[MemBits] words
  Ctx,          \* the contexts
  TorRegions,   \* regions added in a build with PMP_MODE_TOR as default
  NapotRegions, \* the same, with CONFIG_PMP_POWER_OF_TWO_ALIGNMENT
  Stack,        \* stack_info of the contexts
  Rom,          \* __rom_region_start and its size
  MaxAdds,      \* bound: regions added to a context
  MaxInits      \* bound: calls of z_riscv_pmp_init

Pow2[k \in 0 .. MemBits + 1] == IF k = 0 THEN 1 ELSE 2 * Pow2[k - 1]
MemSize == Pow2[MemBits]
MemWord == 0 .. MemSize - 1
Slot == 0 .. Slots - 1

\* What a NAPOT entry can describe.  The code leaves it to its callers and to
\* the linker.
Aligned(r) == \E k \in 0 .. MemBits : r.size = Pow2[k] /\ r.start % Pow2[k] = 0

\* A pmpcfg register has four entries, and RISCV_PMP_CFG_NUM of them are used.
ASSUME PmpAssumption ==
  /\ Slots \in Nat /\ Slots >= 4 /\ MemBits \in Nat \ {0} /\ MaxAdds \in Nat
  /\ MaxInits \in Nat
  /\ \A r \in TorRegions \cup NapotRegions \cup {Stack, Rom} :
       r.start \in MemWord /\ r.size \in 0 .. MemSize - 1 - r.start
  /\ \A r \in NapotRegions : r.size # 0 => Aligned(r)
  /\ Stack.size # 0 /\ Rom.size # 0

VARIABLES
  mode,               \* PMP_MODE_DEFAULT
  static_regions_num,
  csr,                \* pmpcfg and pmpaddr, by entry
  u_pmp,              \* u_pmpcfg and u_pmpaddr of every context, by entry
  inits,              \* bound: contexts that were reset
  added               \* history: the regions accepted, with their last entry

pmpVars == <<mode, static_regions_num, csr, u_pmp, inits, added>>

ENOSPC == 28
EINVAL == 22

\* An entry: the address-matching mode, permissions and lock of its
\* configuration byte, and its address register.
Empty(addr) == [a |-> "OFF", perm |-> {}, lock |-> FALSE, addr |-> addr]

\* The configuration byte is 0.
IsFree(e) == e.a = "OFF" /\ e.perm = {} /\ ~e.lock
Cleared(e) == Empty(e.addr)

UsedEntries == IF mode = "TOR" THEN 2 ELSE 1   \* PMP_USED_ENTRY_DEFAULT

\* mprv_regions_num is 0 throughout.
max_dynamic_region == Slots - static_regions_num - 1

\* TO_PMP_NAPOT of a power of two: all but the highest of the address bits
\* that the size covers are set.
ToNapot(start, size) ==
  LET half == IF size = 1 THEN 1 ELSE size \div 2
  IN  (start - (start % half)) + half - 1

TorEntries(r) ==
  <<[a |-> "NA4", perm |-> r.perm, lock |-> r.lock, addr |-> r.start],
    [a |-> "TOR", perm |-> r.perm, lock |-> r.lock,
     addr |-> (r.start + r.size) % MemSize]>>

\* The entries for a region.  Start and size 0 stand for all of memory.
EntriesOf(r) ==
  IF r.start = 0 /\ r.size = 0
  THEN <<[a |-> "NAPOT", perm |-> r.perm, lock |-> r.lock,
          addr |-> Pow2[MemBits - 1] - 1]>>
  ELSE IF r.mode = "TOR" THEN TorEntries(r)
  ELSE <<[a |-> IF r.mode = "NA4" \/ r.size = 1 THEN "NA4" ELSE "NAPOT",
          perm |-> r.perm, lock |-> r.lock,
          addr |-> ToNapot(r.start, r.size)]>>

\* riscv_pmp_region_translate: the entries with the region, and the next
\* index or an error.
Translate(entries, index, r) ==
  LET new == EntriesOf(r)
      next == index + Len(new)
  IN  IF next > Slots THEN [entries |-> entries, next |-> -ENOSPC]
      ELSE [entries |-> [i \in Slot |-> IF i \in index .. next - 1
                                        THEN new[i - index + 1]
                                        ELSE entries[i]],
            next |-> next]

-----------------------------------------------------------------------------
(* What the hardware does (external): the lowest entry that matches decides, *)
(* and a locked entry ignores writes until the next reset.  (So does the     *)
(* address below a locked TOR entry, which TorEntries locks with it.)        *)

WriteEntry(i, e) == IF csr[i].lock THEN csr[i] ELSE e

NapotSize(addr) ==
  Pow2[1 + Max({k \in 0 .. MemBits : addr % Pow2[k] = Pow2[k] - 1})]

Matches(entries, i, w) ==
  LET e == entries[i]
  IN  CASE e.a = "OFF" -> FALSE
        [] e.a = "NA4" -> w = e.addr
        [] e.a = "NAPOT" -> w \div NapotSize(e.addr)
                              = e.addr \div NapotSize(e.addr)
        [] e.a = "TOR" -> /\ w < e.addr
                          /\ i > 0 => w >= entries[i - 1].addr

\* The accesses a user has to a word.
Allowed(entries, w) ==
  LET m == {i \in Slot : Matches(entries, i, w)}
  IN  IF m = {} THEN {} ELSE entries[Min(m)].perm

-----------------------------------------------------------------------------
\* A build with power-of-two alignment aligns the stacks and the program.
PmpInit ==
  /\ mode \in {"TOR", "NAPOT"}
  /\ mode = "NAPOT" => Aligned(Stack) /\ Aligned(Rom)
  /\ static_regions_num = 0
  /\ csr = [i \in Slot |-> Empty(0)]
  /\ u_pmp = [c \in Ctx |-> csr]
  /\ inits = 0
  /\ added = [c \in Ctx |-> <<>>]

\* static_regions
RomRegion == [start |-> Rom.start, size |-> Rom.size, perm |-> {"R", "X"},
              lock |-> TRUE, mode |-> mode]

\* Called once, by arch_kernel_init: the region of the program, placed from
\* the last entry down.
z_riscv_configure_static_pmp_regions ==
  /\ static_regions_num = 0
  /\ LET index == max_dynamic_region - UsedEntries + 1
     IN  csr' = Translate(csr, index, RomRegion).entries
  /\ static_regions_num' = UsedEntries
  /\ UNCHANGED <<mode, u_pmp, inits, added>>

\* pmpaddr keeps its values.
z_riscv_pmp_init(c) ==
  /\ inits < MaxInits /\ inits' = inits + 1
  /\ u_pmp' = [u_pmp EXCEPT ![c] = [i \in Slot |-> Cleared(@[i])]]
  /\ added' = [added EXCEPT ![c] = <<>>]
  /\ UNCHANGED <<mode, static_regions_num, csr>>

StackRegion == [start |-> Stack.start, size |-> Stack.size, perm |-> {"R"},
                lock |-> FALSE, mode |-> mode]

z_riscv_init_user_accesses(c) ==
  /\ u_pmp' = [u_pmp EXCEPT ![c] = Translate(@, 0, StackRegion).entries]
  /\ UNCHANGED <<mode, static_regions_num, csr, inits, added>>

\* riscv_pmpcfg_set_range over the dynamic entries, then over none.
z_riscv_pmp_clear_config ==
  /\ csr' = [i \in Slot |-> IF i <= max_dynamic_region
                            THEN WriteEntry(i, Cleared(csr[i]))
                            ELSE csr[i]]
  /\ UNCHANGED <<mode, static_regions_num, u_pmp, inits, added>>

z_riscv_configure_user_allowed_stack(c) ==
  /\ csr' = [i \in Slot |-> IF i <= max_dynamic_region
                            THEN WriteEntry(i, u_pmp[c][i])
                            ELSE csr[i]]
  /\ UNCHANGED <<mode, static_regions_num, u_pmp, inits, added>>

\* Where the search for a free entry ends, possibly above the dynamic ones.
FreeIndex(c) ==
  LET first == 1 + UsedEntries
  IN  Min({i \in first .. max_dynamic_region : IsFree(u_pmp[c][i])}
            \cup {Max({first, max_dynamic_region + 1})})

\* flags are of PMP_R, PMP_W, PMP_X and PMP_L.
DynamicRegion(addr, size, flags) ==
  [start |-> addr, size |-> size, perm |-> flags \ {"L"}, lock |-> "L" \in flags,
   mode |-> IF size = 1 THEN "NA4" ELSE mode]

\* What z_riscv_pmp_add_dynamic returns: the next index is kept in an unsigned
\* char, so that the error of a full table is never seen.
AddReturns(c, addr, size, flags) ==
  LET t == Translate(u_pmp[c], FreeIndex(c), DynamicRegion(addr, size, flags))
      index == t.next % 256
  IN  CASE size = 0 -> -EINVAL
        [] size # 0 /\ index = -ENOSPC -> -ENOSPC
        [] OTHER -> 0

\* Mutant: entries that are in use are taken.
add_dynamic_NoSearch(c, addr, size, flags) ==
  /\ AddReturns(c, addr, size, flags) = 0
  /\ LET region == DynamicRegion(addr, size, flags)
         t == Translate(u_pmp[c], 1 + UsedEntries, region)
     IN  /\ u_pmp' = [u_pmp EXCEPT ![c] = t.entries]
         /\ added' = [added EXCEPT ![c] =
                        Append(@, [region |-> region, last |-> t.next - 1])]
  /\ UNCHANGED <<mode, static_regions_num, csr, inits>>

\* A refused region (-EINVAL) changes nothing.
z_riscv_pmp_add_dynamic(c, addr, size, flags) ==
  /\ AddReturns(c, addr, size, flags) = 0
  /\ LET region == DynamicRegion(addr, size, flags)
         t == Translate(u_pmp[c], FreeIndex(c), region)
     IN  /\ u_pmp' = [u_pmp EXCEPT ![c] = t.entries]
         /\ added' = [added EXCEPT ![c] =
                        Append(@, [region |-> region, last |-> t.next - 1])]
  /\ UNCHANGED <<mode, static_regions_num, csr, inits>>

-----------------------------------------------------------------------------
\* riscv_pmp_get_user_pmp
UserEntry(c, i) == IF i > max_dynamic_region THEN csr[i] ELSE u_pmp[c][i]

\* Mutant: the end of a NAPOT region is one word too far.
NapotEnd_OffByOne(addr, start) == (start + NapotSize(addr)) % MemSize

NapotEnd(addr, start) == (start - 1 + NapotSize(addr)) % MemSize

\* The first and the last word of an entry.
FirstWord(c, i) ==
  LET e == UserEntry(c, i)
  IN  CASE e.a \in {"NA4", "OFF"} -> e.addr
        [] e.a = "NAPOT" -> e.addr - (e.addr % NapotSize(e.addr))
        [] e.a = "TOR" -> IF i = 0 THEN 0 ELSE csr[i - 1].addr

LastWord(c, i) ==
  LET e == UserEntry(c, i)
  IN  CASE e.a \in {"NA4", "OFF"} -> e.addr
        [] e.a = "NAPOT" -> NapotEnd(e.addr, FirstWord(c, i))
        [] e.a = "TOR" -> (e.addr - 1) % MemSize

is_in_region(c, i, start, size) ==
  LET end == start + size - 1
  IN  /\ UserEntry(c, i).a # "OFF"
      /\ end \in MemWord
      /\ start >= FirstWord(c, i) /\ end <= LastWord(c, i)

arch_buffer_validate(c, start, size, access) ==
  LET within == {i \in Slot : is_in_region(c, i, start, size)}
  IN  IF within # {} /\ access \in UserEntry(c, Min(within)).perm THEN 0 ELSE -1

-----------------------------------------------------------------------------
PmpNext ==
  \/ z_riscv_configure_static_pmp_regions
  \/ /\ static_regions_num # 0
     /\ \/ z_riscv_pmp_clear_config
        \/ \E c \in Ctx :
             \/ z_riscv_pmp_init(c)
             \/ z_riscv_init_user_accesses(c)
             \/ z_riscv_configure_user_allowed_stack(c)
             \/ /\ Len(added[c]) < MaxAdds
                /\ \E r \in IF mode = "TOR" THEN TorRegions ELSE NapotRegions :
                     z_riscv_pmp_add_dynamic(c, r.start, r.size, r.flags)

PmpSpec == PmpInit /\ [][PmpNext]_pmpVars

-----------------------------------------------------------------------------
WordsOf(r) == r.start .. r.start + r.size - 1

\* The entries of the hardware are those of the context.
InForce(c) == \A i \in 0 .. max_dynamic_region : csr[i] = u_pmp[c][i]

\* The regions of a context by descending priority: its stack, what was
\* added, the program.
RegionsOf(c) ==
  (IF IsFree(u_pmp[c][0]) THEN <<>> ELSE <<StackRegion>>)
    \o [k \in 1 .. Len(added[c]) |-> added[c][k].region]
    \o (IF static_regions_num = 0 THEN <<>> ELSE <<RomRegion>>)

Fits(c) == \A k \in 1 .. Len(added[c]) :
             added[c][k].last \in 0 .. max_dynamic_region

(***************************************************************************)
(* While a context is in force, and its regions fit into the dynamic       *)
(* entries, a user may access every word as the first of the regions that  *)
(* contain it says, and no other word at all: what the translation writes, *)
(* and the search for free entries, mean what was asked for                *)
(* (core_pmp.c:382-491, 610-677).                                          *)
(***************************************************************************)
AsAdded ==
  \A c \in Ctx : InForce(c) /\ Fits(c) =>
    LET rs == RegionsOf(c)
    IN  \A w \in MemWord :
          LET k == {i \in 1 .. Len(rs) : w \in WordsOf(rs[i])}
          IN  Allowed(csr, w) = IF k = {} THEN {} ELSE rs[Min(k)].perm

Disjoint(rs) == \A i, j \in 1 .. Len(rs) :
                  i # j => WordsOf(rs[i]) \cap WordsOf(rs[j]) = {}

\* The hardware grants the access to every word of the buffer.
WholeBuffer(entries, start, size, access) ==
  \A w \in start .. start + size - 1 : w \in MemWord /\ access \in Allowed(entries, w)

(***************************************************************************)
(* For the context in force, if its regions do not overlap: a buffer that  *)
(* arch_buffer_validate accepts is accessible to the last word, and one    *)
(* that is accessible and lies in one region is accepted                   *)
(* (core_pmp.c:700-796, core_pmp.h:113-119).                               *)
(***************************************************************************)
ValidateAgrees ==
  \A c \in Ctx : InForce(c) /\ Fits(c) /\ Disjoint(RegionsOf(c)) =>
    LET rs == RegionsOf(c)
    IN  \A start \in MemWord, size \in 1 .. 4, access \in {"R", "W"} :
          LET ok == arch_buffer_validate(c, start, size, access) = 0
              all == WholeBuffer(csr, start, size, access)
              one == \E k \in 1 .. Len(rs) :
                       start .. start + size - 1 \subseteq WordsOf(rs[k])
          IN  (ok => all) /\ (all /\ one => ok)

-----------------------------------------------------------------------------
(***************************************************************************)
(* core_pmp.h:114-115, "guaranteed to never return validation success, if  *)
(* the entire buffer area is not user accessible": nothing is accepted     *)
(* that the entries of the context would deny.                             *)
(***************************************************************************)
NeverTooPermissive ==
  \A c \in Ctx, start \in MemWord, size \in 1 .. 4, access \in {"R", "W"} :
    arch_buffer_validate(c, start, size, access) = 0
      => WholeBuffer([i \in Slot |-> UserEntry(c, i)], start, size, access)

(***************************************************************************)
(* core_pmp.h:73, "Write user access setup saved in this pmp structure":   *)
(* a context that is applied is the one in force, whatever was applied     *)
(* before it (core_pmp.c:610-627).                                         *)
(***************************************************************************)
AppliedInForce ==
  [][\A c \in Ctx : z_riscv_configure_user_allowed_stack(c) => InForce(c)']_pmpVars
=============================================================================
