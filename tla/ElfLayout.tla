------------------------------ MODULE ElfLayout ------------------------------
(***************************************************************************)
(* Where the converter puts things: compute_plan decides every address and *)
(* file offset before a byte is emitted, build_phdrs describes them to the *)
(* loader, and the Writer emits headers, synthetic sections, PE sections,  *)
(* PE headers and section headers in that order, padding up to each        *)
(* planned offset.  Padding never goes back: a part that turns out larger  *)
(* than planned silently moves everything after it.                        *)
(*                                                                         *)
(* Bytes are not modelled, their offsets and sizes are.  The virtual       *)
(* address of a synthetic section is synth_va plus its file offset.        *)
(***************************************************************************)
EXTENDS Integers, Sequences

CONSTANT Inputs   \* what the earlier stages hand to compute_plan

kPageSize        == 4096
kTrampolineSize  == 80
kPhdrsMaxCount   == 20
kSynthMargin     == 65536
kSynthFallbackVa == 2097152
EhdrSize == 64
PhdrSize == 56
ShdrSize == 64
SymSize  == 24
RelaSize == 24
DynSize  == 16

\* A PE section; whether it is .pdata and whether it holds IAT slots.
Section == [va : Nat, virtsz : Nat, rawsz : Nat, pdata : BOOLEAN, iat : BOOLEAN]

Input == [base   : Nat,           \* image_base
          secs   : Seq(Section),
          hdr    : Nat,           \* SizeOfHeaders
          interp : Nat,           \* bytes of interp_data, dynstr_data, hash_data
          dynstr : Nat,
          hash   : Nat,
          dynsym : Nat,           \* entries of dynsym_data, rela_data, dynamic_data
          rela   : Nat,
          dynamic : Nat,
          strip_pdata : BOOLEAN,
          keep_shdr   : BOOLEAN,
          shstrtab    : Nat]      \* bytes of shstrtab_data

ASSUME InputsAssumption == \A x \in Inputs : x \in Input

VARIABLES
  in,      \* the input
  pc,      \* the stage
  i,       \* index of the current loop
  plan,    \* Plan
  foff,    \* elf_foff of every section
  sec_cur, \* file offset where the next section goes
  phdrs,   \* program headers, PT_PHDR first
  out,     \* OutBuf.size()
  at,      \* where the Writer put each part
  secAt    \* where it put each PE section

vars == <<in, pc, i, plan, foff, sec_cur, phdrs, out, at, secAt>>

align_up(v, a) == ((v + a - 1) \div a) * a

Larger(a, b) == IF a >= b THEN a ELSE b

NSecs(x) == Len(x.secs)

\* The synthetic sections, in the order of the plan and of the Writer.
Blobs == <<"interp", "dynsym", "dynstr", "hash", "rela", "dynamic", "trampoline">>

Parts == {"interp", "dynsym", "dynstr", "hash", "rela", "dynamic", "trampoline",
          "pe_hdr", "shstrtab", "shdrs"}

BlobSize(x, b) ==
  CASE b = "interp"     -> x.interp
    [] b = "dynsym"     -> x.dynsym * SymSize
    [] b = "dynstr"     -> x.dynstr
    [] b = "hash"       -> x.hash
    [] b = "rela"       -> x.rela * RelaSize
    [] b = "dynamic"    -> x.dynamic * DynSize
    [] b = "trampoline" -> kTrampolineSize

\* Not written yet.
Nowhere == -1

NoPlan == [p \in Parts \cup {"synth_va", "end", "pe_data"} |-> 0]

Init ==
  /\ in \in Inputs
  /\ pc = "plan" /\ i = 1
  /\ plan = NoPlan
  /\ foff = [s \in 1 .. NSecs(in) |-> 0] /\ sec_cur = 0
  /\ phdrs = <<>>
  /\ out = 0
  /\ at = [p \in Parts |-> Nowhere]
  /\ secAt = [s \in 1 .. NSecs(in) |-> Nowhere]

-----------------------------------------------------------------------------
(* compute_plan.                                                           *)

\* syn_size_needed, an estimate with a fixed number of program headers.
Needed(x) ==
  align_up(align_up(x.interp, 8) + align_up(x.dynsym * SymSize, 8) + align_up(x.dynstr, 8)
           + align_up(x.hash, 8) + align_up(x.rela * RelaSize, 8) + align_up(x.dynamic * DynSize, 8)
           + kTrampolineSize + EhdrSize + kPhdrsMaxCount * PhdrSize, kPageSize)

\* Mutant of SynthVa: not rounded to a page.
SynthVaUnaligned(x) ==
  IF x.base < Needed(x) + kSynthMargin THEN kSynthFallbackVa
  ELSE x.base - Needed(x) - kPageSize - EhdrSize

\* Mutant of SynthVa: without room below the image the lowest address is taken.
SynthVaClamped(x) ==
  IF x.base < Needed(x) + kSynthMargin THEN 0
  ELSE ((x.base - Needed(x) - kPageSize) \div kPageSize) * kPageSize

SynthVa(x) ==
  IF x.base < Needed(x) + kSynthMargin THEN kSynthFallbackVa
  ELSE ((x.base - Needed(x) - kPageSize) \div kPageSize) * kPageSize

\* Mutant of n_phdrs_max: the two optional headers are forgotten.
PhdrsReservedShort(x) == 4 + NSecs(x) + 1

\* n_phdrs_max: the first four, one per section, RELRO and STACK, PE headers.
PhdrsReserved(x) == 4 + NSecs(x) + 2 + 1

HdrFileEnd(x) == align_up(EhdrSize + PhdrsReserved(x) * PhdrSize, 8)

Plan(x) ==
  LET interp     == HdrFileEnd(x)
      dynsym     == interp + align_up(x.interp, 8)
      dynstr     == dynsym + align_up(x.dynsym * SymSize, 8)
      hash       == dynstr + align_up(x.dynstr, 8)
      rela       == hash + align_up(x.hash, 8)
      dynamic    == rela + align_up(x.rela * RelaSize, 8)
      trampoline == dynamic + align_up(x.dynamic * DynSize, 8)
      end        == trampoline + kTrampolineSize
  IN [synth_va |-> SynthVa(x), interp |-> interp, dynsym |-> dynsym, dynstr |-> dynstr,
      hash |-> hash, rela |-> rela, dynamic |-> dynamic, trampoline |-> trampoline,
      end |-> end, pe_data |-> align_up(end, kPageSize),
      pe_hdr |-> 0, shstrtab |-> 0, shdrs |-> 0]

ComputePlan ==
  /\ pc = "plan"
  /\ plan' = Plan(in)
  /\ sec_cur' = plan'.pe_data
  /\ pc' = "place"
  /\ UNCHANGED <<in, i, foff, phdrs, out, at, secAt>>

\* sec_cur after section s.
AfterSection(s) == align_up(sec_cur + in.secs[s].rawsz, kPageSize)

PlaceSection ==
  /\ pc = "place" /\ i <= NSecs(in)
  /\ foff' = [foff EXCEPT ![i] = sec_cur]
  /\ sec_cur' = AfterSection(i)
  /\ i' = i + 1
  /\ UNCHANGED <<in, pc, plan, phdrs, out, at, secAt>>

-----------------------------------------------------------------------------
(* Converter::convert computes where the section headers go ...            *)

\* last_end: the largest of the ends of the sections and of the PE headers.
Ends == {plan.pe_data, sec_cur + in.hdr} \cup {foff[s] + in.secs[s].rawsz : s \in 1 .. NSecs(in)}
LastEnd == CHOOSE e \in Ends : \A x \in Ends : x <= e

PlaceHeaders ==
  LET strtab == align_up(LastEnd, 8) IN
  /\ pc = "place" /\ i > NSecs(in)
  /\ plan' = [plan EXCEPT !.pe_hdr = sec_cur, !.shstrtab = strtab,
                          !.shdrs = IF in.keep_shdr THEN align_up(strtab + in.shstrtab, 8) ELSE 0]
  /\ pc' = "phdrs" /\ i' = 1
  /\ UNCHANGED <<in, foff, sec_cur, phdrs, out, at, secAt>>

(* ... and build_phdrs describes the segments.                             *)

Phdr(type, off, va, filesz, memsz) ==
  [type |-> type, off |-> off, va |-> va, filesz |-> filesz, memsz |-> memsz]

Va(off) == plan.synth_va + off

FirstPhdrs ==
  /\ pc = "phdrs"
  /\ phdrs' = << Phdr("PT_PHDR", EhdrSize, Va(EhdrSize), 0, 0),
                 Phdr("PT_INTERP", plan.interp, Va(plan.interp), in.interp, in.interp),
                 Phdr("PT_LOAD", 0, plan.synth_va, plan.end, plan.end),
                 Phdr("PT_DYNAMIC", plan.dynamic, Va(plan.dynamic),
                      in.dynamic * DynSize, in.dynamic * DynSize) >>
  /\ pc' = "loads"
  /\ UNCHANGED <<in, i, plan, foff, sec_cur, out, at, secAt>>

Stripped(s) == in.strip_pdata /\ in.secs[s].pdata

SectionPhdr ==
  LET sec == in.secs[i] IN
  /\ pc = "loads" /\ i <= NSecs(in)
  /\ \/ Stripped(i) /\ phdrs' = phdrs
     \/ /\ ~Stripped(i)
        /\ phdrs' = Append(phdrs, Phdr("PT_LOAD", foff[i], in.base + sec.va, sec.rawsz,
                                       Larger(sec.virtsz, sec.rawsz)))
  /\ i' = i + 1
  /\ UNCHANGED <<in, pc, plan, foff, sec_cur, out, at, secAt>>

\* The section the loader makes read-only again: the only one with IAT slots.
Relro == {s \in 1 .. NSecs(in) :
            /\ in.secs[s].iat /\ ~Stripped(s)
            /\ \A u \in 1 .. NSecs(in) : in.secs[u].iat => u = s}

LastPhdrs ==
  LET relro == IF Relro = {} THEN <<>>
               ELSE LET s == CHOOSE s \in Relro : TRUE
                    IN << Phdr("PT_GNU_RELRO", foff[s], in.base + in.secs[s].va,
                               in.secs[s].rawsz, in.secs[s].rawsz) >>
      rest == << Phdr("PT_GNU_STACK", 0, 0, 0, 0),
                 Phdr("PT_LOAD", plan.pe_hdr, in.base, in.hdr, align_up(in.hdr, kPageSize)) >>
      all == phdrs \o relro \o rest
  IN
  /\ pc = "loads" /\ i > NSecs(in)
  /\ phdrs' = [all EXCEPT ![1].filesz = Len(all) * PhdrSize, ![1].memsz = Len(all) * PhdrSize]
  /\ pc' = "header" /\ i' = 1
  /\ UNCHANGED <<in, plan, foff, sec_cur, out, at, secAt>>

-----------------------------------------------------------------------------
(* Writer::write.                                                          *)

\* pad_to_size: the size of the buffer after padding.
Padded(target) == Larger(out, target)

WriteHeader ==
  /\ pc = "header"
  /\ out' = EhdrSize + Len(phdrs) * PhdrSize
  /\ pc' = "blobs"
  /\ UNCHANGED <<in, i, plan, foff, sec_cur, phdrs, at, secAt>>

\* An empty hash table is not even padded to.
WriteBlob ==
  LET b == Blobs[i] IN
  /\ pc = "blobs"
  /\ \/ /\ b = "hash" /\ in.hash = 0
        /\ UNCHANGED <<out, at>>
     \/ /\ b # "hash" \/ in.hash # 0
        /\ at'  = [at EXCEPT ![b] = Padded(plan[b])]
        /\ out' = Padded(plan[b]) + BlobSize(in, b)
  /\ \/ i < 7 /\ i' = i + 1 /\ pc' = pc
     \/ i = 7 /\ i' = 1 /\ pc' = "sections"
  /\ UNCHANGED <<in, plan, foff, sec_cur, phdrs, secAt>>

WriteSection ==
  /\ pc = "sections" /\ i <= NSecs(in)
  /\ secAt' = [secAt EXCEPT ![i] = Padded(foff[i])]
  /\ out' = Padded(foff[i]) + in.secs[i].rawsz
  /\ i' = i + 1
  /\ UNCHANGED <<in, pc, plan, foff, sec_cur, phdrs, at>>

\* A PE file is at least as long as its headers.
WritePeHeader ==
  /\ pc = "sections" /\ i > NSecs(in)
  /\ at' = [at EXCEPT !["pe_hdr"] = Padded(plan.pe_hdr)]
  /\ out' = Padded(plan.pe_hdr) + in.hdr
  /\ pc' = IF in.keep_shdr THEN "shstrtab" ELSE "done"
  /\ UNCHANGED <<in, i, plan, foff, sec_cur, phdrs, secAt>>

WriteShstrtab ==
  /\ pc = "shstrtab"
  /\ at' = [at EXCEPT !["shstrtab"] = Padded(plan.shstrtab)]
  /\ out' = Padded(plan.shstrtab) + in.shstrtab
  /\ pc' = "shdrs"
  /\ UNCHANGED <<in, i, plan, foff, sec_cur, phdrs, secAt>>

\* One header per PE section, the null one, five or six synthetic ones and
\* .shstrtab.
NShdrs == NSecs(in) + 7 + (IF in.hash # 0 THEN 1 ELSE 0)

WriteShdrs ==
  /\ pc = "shdrs"
  /\ at' = [at EXCEPT !["shdrs"] = Padded(plan.shdrs)]
  /\ out' = Padded(plan.shdrs) + NShdrs * ShdrSize
  /\ pc' = "done"
  /\ UNCHANGED <<in, i, plan, foff, sec_cur, phdrs, secAt>>

Next ==
  \/ ComputePlan \/ PlaceSection \/ PlaceHeaders
  \/ FirstPhdrs \/ SectionPhdr \/ LastPhdrs
  \/ WriteHeader \/ WriteBlob \/ WriteSection \/ WritePeHeader \/ WriteShstrtab \/ WriteShdrs

Spec == Init /\ [][Next]_vars

-----------------------------------------------------------------------------
(* Properties.                                                             *)

(* Every part is written exactly where the plan, and with it the program   *)
(* headers, the dynamic section and the section headers, says it is:       *)
(* nothing before it was larger than planned.                              *)
Placed ==
  /\ \A p \in Parts : at[p] # Nowhere => at[p] = plan[p]
  /\ \A s \in 1 .. NSecs(in) : secAt[s] # Nowhere => secAt[s] = foff[s]

Loads == {p \in {phdrs[n] : n \in 1 .. Len(phdrs)} : p.type = "PT_LOAD"}

\* The pages a segment occupies in memory.
Pages(p) == (p.va \div kPageSize) .. ((p.va + p.memsz - 1) \div kPageSize)

Described == pc \notin {"plan", "place", "phdrs", "loads"}

(* No two segments share a page of memory: the synthetic segment, the PE   *)
(* headers and the PE sections all get their own.                          *)
LoadsDisjoint ==
  Described => \A p, q \in Loads : p # q => Pages(p) \cap Pages(q) = {}

(* The kernel can map every segment: its file offset and its address agree *)
(* within the page, and the file is long enough.                           *)
Mappable ==
  Described => \A p \in Loads : /\ (p.va - p.off) % kPageSize = 0
                                /\ pc = "done" => p.off + p.filesz <= out

-----------------------------------------------------------------------------
(* What the last two ask of an image.  The linkers follow the PE format;   *)
(* PeImage::parse does not look.                                           *)

\* Image base and sections are on page boundaries.
OnPages(x) == x.base % kPageSize = 0 /\ \A s \in 1 .. NSecs(x) : x.secs[s].va % kPageSize = 0

MemEnd(x, s) == x.secs[s].va + Larger(x.secs[s].virtsz, x.secs[s].rawsz)

\* The sections follow the headers and each other.
Ascending(x) ==
  \A s \in 1 .. NSecs(x) : /\ align_up(x.hdr, kPageSize) <= x.secs[s].va
                          /\ \A u \in 1 .. NSecs(x) : s < u => MemEnd(x, s) <= x.secs[u].va

\* The synthetic segment has room below the image, or at the fallback address
\* above it.  The estimate counts kPhdrsMaxCount program headers, the spare page
\* makes up for 73 more, and 7 are not for sections.
MaxSections == 86

SynthRoom(x) ==
  /\ NSecs(x) <= MaxSections
  /\ x.base < Needed(x) + kSynthMargin =>
       /\ x.base + align_up(x.hdr, kPageSize) <= kSynthFallbackVa
       /\ \A s \in 1 .. NSecs(x) : x.base + MemEnd(x, s) <= kSynthFallbackVa

Loadable(x) == OnPages(x) /\ Ascending(x) /\ SynthRoom(x)
=============================================================================
