--------------------------- MODULE ProgramsProofs ---------------------------
(***************************************************************************)
(* Programs, for any number of programs, modules, code objects,            *)
(* executables and host variables.  What the properties say of the end is  *)
(* kept true on the way: every file belongs to a live code object (its     *)
(* binary) or to a live program (its temporary files), every directory to  *)
(* a code object, and a mapped image to the definitions of its only user.  *)
(***************************************************************************)
EXTENDS Programs, TLAPS

-----------------------------------------------------------------------------
(* The invariants.                                                         *)

Places == Codes \cup {Shared}
FileSet == [dir : Places, of : Codes, part : Modules \cup {Binary}]
SymbolSet == [code : Codes, name : Modules, found : BOOLEAN]
Definitions == [Names -> Addrs \cup {NULL}]
ProgSet == [state : {"none", "live", "dead"}, BRIGs : SUBSET Modules,
            TempFiles : SUBSET FileSet]
CodeSet == [state : {"none", "making", "failed", "live", "dead"},
            by : Progs \cup {NULL}, dir : Places, elf : SUBSET Modules, dl : BOOLEAN,
            hostDef : Definitions, users : SUBSET Exes]
ExeSet == [state : {"none", "unfrozen", "frozen", "dead"}, symbols : SUBSET SymbolSet,
           byName : [Modules -> SymbolSet \cup {NULL}], DefinedSymbols : Definitions,
           late : BOOLEAN]

TypeInv ==
  /\ tempDirEnv \in BOOLEAN /\ debug \in BOOLEAN
  /\ prog \in [Progs -> ProgSet]
  /\ dirs \subseteq Places /\ files \subseteq FileSet
  /\ code \in [Codes -> CodeSet]
  /\ blobs \subseteq SUBSET Modules
  /\ exe \in [Exes -> ExeSet]
  /\ phase \in {"up", "collect", "off"}

\* A finalization under way holds on to its program.
MakingInv ==
  \A c \in Codes : Making(c) =>
    /\ phase = "up"
    /\ code[c].by \in Progs /\ prog[code[c].by].state = "live"
    /\ prog[code[c].by].BRIGs # {}

\* The temporary files of a program are BRIGs, written for its own
\* finalizations.
TempInv ==
  \A p \in Progs :
    /\ prog[p].TempFiles # {} => prog[p].state = "live"
    /\ \A f \in prog[p].TempFiles :
         f.part \in Modules /\ code[f.of].by = p /\ code[f.of].state # "none"

\* Without the shared directory every code object has one of its own, and the
\* binary of a live one is there.
DirInv ==
  ~ tempDirEnv => \A c \in Codes :
    /\ code[c].state # "none" => code[c].dir = c
    /\ code[c].state = "live" => BinaryFile(c) \in files

\* Out of debug mode every file and every directory has an owner, and at the
\* end there are no owners.
Owned(f) ==
  \/ f.part = Binary /\ code[f.of].state = "live" /\ f.dir = code[f.of].dir
  \/ \E p \in Progs : f \in prog[p].TempFiles
LeftInv ==
  /\ ~ debug =>
       /\ \A f \in files : Owned(f)
       /\ \A d \in dirs : \E c \in Codes :
            code[c].state \in {"making", "failed", "live"} /\ code[c].dir = d
  /\ phase = "off" => /\ \A c \in Codes : code[c].state # "live"
                      /\ \A p \in Progs : prog[p].state # "live"

\* Nothing was written to an image that was never mapped; an executable that
\* has loaded a code object has symbols, for no image is without kernels.
ImageInv ==
  /\ \A c \in Codes :
       /\ code[c].state # "live" => ~ code[c].dl
       /\ code[c].state \in {"none", "making", "failed"} => code[c].users = {}
       /\ code[c].state # "dead" /\ ~ code[c].dl => code[c].hostDef = [n \in Names |-> NULL]
       /\ code[c].dl => code[c].users # {}
       /\ code[c].state = "live" => code[c].elf # {}
       /\ \A e \in code[c].users :
            exe[e].state # "none" /\ (LiveExe(e) => exe[e].symbols # {})
  /\ \A e \in Exes : exe[e].state = "none" => exe[e].symbols = {}
  /\ {} \notin blobs

IInv == /\ TypeInv /\ MakingInv /\ TempInv /\ DirInv /\ LeftInv /\ ImageInv
        /\ InputsKept /\ SymbolsCallable /\ DefinitionsSeen

-----------------------------------------------------------------------------
(* The initial states, and facts that many steps need.                     *)

\* The invariant holds before the first call.
LEMMA InitInv == Init => IInv
<1> SUFFICES ASSUME Init PROVE IInv
  OBVIOUS
<1>1. \A p \in Progs : prog[p] = NoProg
  BY DEF Init
<1>2. \A c \in Codes : code[c] = NoCode
  BY DEF Init
<1>3. \A e \in Exes : exe[e] = NoExe
  BY DEF Init
<1>4. NoProg \in ProgSet /\ NoCode \in CodeSet /\ NoExe \in ExeSet
  BY DEF NoProg, ProgSet, NoCode, CodeSet, NoExe, ExeSet, Places, Definitions
<1>5. TypeInv
  BY <1>4 DEF Init, TypeInv
<1>6. /\ NoProg.TempFiles = {} /\ NoProg.state = "none"
      /\ NoCode.state = "none" /\ NoCode.dl = FALSE /\ NoCode.users = {}
      /\ NoCode.hostDef = [n \in Names |-> NULL]
      /\ NoExe.state = "none" /\ NoExe.symbols = {}
  BY DEF NoProg, NoCode, NoExe
<1>7. MakingInv /\ TempInv /\ DirInv /\ LeftInv /\ ImageInv
  BY <1>1, <1>2, <1>6 DEF Init, MakingInv, TempInv, DirInv, LeftInv, ImageInv, Making
<1>8. InputsKept /\ SymbolsCallable /\ DefinitionsSeen
  BY <1>2, <1>3, <1>6 DEF InputsKept, SymbolsCallable, DefinitionsSeen, Making, LiveExe
<1> QED
  BY <1>5, <1>7, <1>8 DEF IInv

\* The fields of the records.
LEMMA ProgFields ==
  ASSUME TypeInv, NEW p \in Progs
  PROVE  /\ prog[p].state \in {"none", "live", "dead"}
         /\ prog[p].BRIGs \subseteq Modules /\ prog[p].TempFiles \subseteq FileSet
BY DEF TypeInv, ProgSet

\* The fields of a code object,
LEMMA CodeFields ==
  ASSUME TypeInv, NEW c \in Codes
  PROVE  /\ code[c].state \in {"none", "making", "failed", "live", "dead"}
         /\ code[c].by \in Progs \cup {NULL} /\ code[c].dir \in Places
         /\ code[c].elf \subseteq Modules /\ code[c].dl \in BOOLEAN
         /\ code[c].hostDef \in Definitions /\ code[c].users \subseteq Exes
BY DEF TypeInv, CodeSet

\* of an executable,
LEMMA ExeFields ==
  ASSUME TypeInv, NEW e \in Exes
  PROVE  /\ exe[e].state \in {"none", "unfrozen", "frozen", "dead"}
         /\ exe[e].symbols \subseteq SymbolSet
         /\ exe[e].byName \in [Modules -> SymbolSet \cup {NULL}]
         /\ exe[e].DefinedSymbols \in Definitions /\ exe[e].late \in BOOLEAN
BY DEF TypeInv, ExeSet

\* of a file,
LEMMA FileFields ==
  ASSUME NEW d \in Places, NEW c \in Codes, NEW x \in Modules \cup {Binary}
  PROVE  /\ File(d, c, x) \in FileSet
         /\ File(d, c, x).dir = d /\ File(d, c, x).of = c /\ File(d, c, x).part = x
BY DEF File, FileSet

\* and of a BRIG file.
LEMMA BrigFields ==
  ASSUME NEW d \in Places, NEW c \in Codes, NEW ms \in SUBSET Modules,
         NEW f \in Brigs(d, c, ms)
  PROVE  f \in FileSet /\ f.dir = d /\ f.of = c /\ f.part \in ms
<1>1. PICK m \in ms : f = File(d, c, m)
  BY DEF Brigs
<1> QED
  BY <1>1, FileFields

\* Code objects that are finished or gone.
LEMMA LiveCode ==
  ASSUME NEW r \in CodeSet, NEW elf \in SUBSET Modules
  PROVE  [r EXCEPT !.state = "live", !.elf = elf] \in CodeSet
BY DEF CodeSet

\* A code object that is gone.
LEMMA DeadCode ==
  ASSUME NEW r \in CodeSet
  PROVE  [r EXCEPT !.state = "dead", !.dl = FALSE] \in CodeSet
BY DEF CodeSet

\* A code object whose finalization has begun.
LEMMA StartedCode ==
  ASSUME NEW r \in CodeSet, NEW st \in {"making", "failed"}, NEW p \in Progs, NEW d \in Places
  PROVE  [r EXCEPT !.state = st, !.by = p, !.dir = d] \in CodeSet
BY DEF CodeSet

-----------------------------------------------------------------------------
(* Programs.                                                               *)

\* A new program, or one module more in a program that is not being finalized.
LEMMA GrowProgram ==
  ASSUME IInv, NEW p \in Progs, CreateProgram(p) \/ \E m \in Modules : AddModule(p, m)
  PROVE  IInv'
<1> USE DEF IInv, setting
<1>1. /\ UNCHANGED <<setting, dirs, files, code, blobs, exe>> /\ phase = "up" /\ phase' = "up"
      /\ \A q \in Progs \ {p} : prog'[q] = prog[q]
      /\ prog'[p].state = "live" /\ prog'[p].TempFiles = prog[p].TempFiles
      /\ \A c \in Codes : Making(c) => code[c].by # p
  BY DEF CreateProgram, AddModule, TypeInv, ProgSet, MakingInv, Busy
<1>2. TypeInv'
  BY DEF CreateProgram, AddModule, TypeInv, ProgSet
<1> USE <1>1
<1>3. \A c \in Codes : Making(c)' => /\ Making(c) /\ code[c].by # p
                                     /\ prog'[code[c].by] = prog[code[c].by]
  BY DEF MakingInv, Making
<1>4. MakingInv' /\ InputsKept'
  BY <1>3 DEF MakingInv, InputsKept, InputsThere, Making
<1>5. TempInv' /\ \A f : Owned(f) => Owned(f)'
  BY DEF TempInv, Owned
<1>6. DirInv' /\ LeftInv' /\ ImageInv'
  BY <1>5 DEF DirInv, BinaryFile, LeftInv, ImageInv, LiveExe
<1>7. SymbolsCallable' /\ DefinitionsSeen'
  BY DEF SymbolsCallable, DefinitionsSeen, LiveExe
<1> QED
  BY <1>2, <1>4, <1>5, <1>6, <1>7

\* A program that is not being finalized goes with its temporary files, none
\* of which is a binary or an input of another program's finalization.
LEMMA ShrinkProgram ==
  ASSUME IInv, NEW p \in Progs, DestroyProgram(p) \/ CollectProgram(p)
  PROVE  IInv'
<1> USE DEF IInv, setting
<1>1. /\ UNCHANGED <<setting, dirs, code, blobs, exe, phase>>
      /\ \A q \in Progs \ {p} : prog'[q] = prog[q]
      /\ prog'[p].state = "dead" /\ prog'[p].TempFiles = {}
      /\ prog[p].state = "live"
      /\ files' = IF debug THEN files ELSE files \ prog[p].TempFiles
      /\ \A c \in Codes : Making(c) => code[c].by # p
  BY DEF DestroyProgram, CollectProgram, DeleteProgram, TypeInv, ProgSet, MakingInv, Busy
<1>2. TypeInv'
  BY DEF DestroyProgram, CollectProgram, DeleteProgram, TypeInv, ProgSet
<1> USE <1>1
<1>3. \A c \in Codes : Making(c)' => /\ Making(c) /\ code[c].by # p
                                     /\ prog'[code[c].by] = prog[code[c].by]
  BY DEF MakingInv, Making
<1>4. MakingInv'
  BY <1>3 DEF MakingInv, Making
<1>5. ASSUME NEW f \in files, f.part = Binary \/ code[f.of].by # p
      PROVE  f \in files'
  BY <1>5, ProgramsAssumption DEF TempInv
<1>6. InputsKept'
  <2> SUFFICES ASSUME ~ tempDirEnv, NEW c \in Codes, Making(c)',
                      NEW f \in Brigs(code[c].dir, c, prog[code[c].by].BRIGs)
               PROVE  f \in files'
    BY <1>3 DEF InputsKept, InputsThere
  <2>1. f \in files /\ code[c].by \in Progs /\ code[c].by # p
    BY <1>3 DEF InputsKept, InputsThere, MakingInv
  <2>2. f.of = c
    BY <2>1, ProgFields, CodeFields, BrigFields
  <2> QED
    BY <1>5, <2>1, <2>2
<1>7. TempInv'
  BY DEF TempInv
<1>8. DirInv'
  <2>1. \A c \in Codes : BinaryFile(c)' = BinaryFile(c)
    BY DEF BinaryFile
  <2>2. \A c \in Codes : BinaryFile(c).part = Binary
    BY CodeFields, FileFields DEF BinaryFile
  <2> QED
    BY <1>5, <2>1, <2>2 DEF DirInv
<1>9. LeftInv'
  <2>1. ASSUME ~ debug, NEW f \in files' PROVE Owned(f)'
    <3>1. f \in files /\ f \notin prog[p].TempFiles
      BY <2>1
    <3> QED
      BY <2>1, <3>1 DEF LeftInv, Owned
  <2> QED
    BY <2>1 DEF LeftInv
<1>10. ImageInv' /\ SymbolsCallable' /\ DefinitionsSeen'
  BY DEF ImageInv, SymbolsCallable, DefinitionsSeen, LiveExe
<1> QED
  BY <1>2, <1>4, <1>6, <1>7, <1>8, <1>9, <1>10

-----------------------------------------------------------------------------
(* Finalization.                                                           *)

\* The BRIGs are written for a new code object, into its own directory or the
\* shared one, as temporary files of the program.
LEMMA StartStep ==
  ASSUME IInv, NEW p \in Progs, NEW c \in Codes, StartFinalize(p, c)
  PROVE  IInv'
<1> USE DEF IInv, setting
<1> DEFINE d == TempDir(p, c)
<1>0. PICK ms \in SUBSET prog[p].BRIGs :
        /\ files' = files \cup Brigs(d, c, ms)
        /\ prog' = [prog EXCEPT ![p].TempFiles = @ \cup Brigs(d, c, ms)]
        /\ code' = [code EXCEPT
                      ![c].state = IF ms = prog[p].BRIGs THEN "making" ELSE "failed",
                      ![c].by = p,
                      ![c].dir = d]
  BY DEF StartFinalize, dumpBRIGS
<1>1. /\ d \in Places /\ (~ tempDirEnv => d = c) /\ ms \in SUBSET Modules
      /\ Brigs(d, c, ms) \subseteq FileSet
      /\ \A f \in Brigs(d, c, ms) : f.of = c /\ f.part \in Modules
  <2>1. d \in Places /\ (~ tempDirEnv => d = c) /\ ms \in SUBSET Modules
    BY ProgFields DEF TempDir, Places
  <2> QED
    BY <2>1, BrigFields
<1>2. TypeInv'
  <2>1. prog' \in [Progs -> ProgSet]
    <3> HIDE DEF d
    <3> QED
      BY <1>0, <1>1 DEF TypeInv, ProgSet
  <2>2. code' \in [Codes -> CodeSet]
    <3>1. PICK st \in {"making", "failed"} :
            code' = [code EXCEPT ![c].state = st, ![c].by = p, ![c].dir = d]
      BY <1>0
    <3> HIDE DEF d
    <3>2. code' = [code EXCEPT ![c] = [code[c] EXCEPT !.state = st, !.by = p, !.dir = d]]
      BY <3>1 DEF TypeInv
    <3>3. [code[c] EXCEPT !.state = st, !.by = p, !.dir = d] \in CodeSet
      BY <1>1, StartedCode DEF TypeInv
    <3> QED
      BY <3>2, <3>3 DEF TypeInv
  <2> QED
    BY <1>0, <1>1, <2>1, <2>2 DEF StartFinalize, TypeInv
<1>3. /\ UNCHANGED <<setting, blobs, exe>> /\ phase = "up" /\ phase' = "up"
      /\ dirs' = dirs \cup {d}
      /\ prog[p].state = "live" /\ prog[p].BRIGs # {} /\ code[c].state = "none"
  BY DEF StartFinalize
<1> HIDE DEF d
<1>4. /\ \A q \in Progs \ {p} : prog'[q] = prog[q]
      /\ prog'[p].state = "live" /\ prog'[p].BRIGs = prog[p].BRIGs
      /\ prog'[p].TempFiles = prog[p].TempFiles \cup Brigs(d, c, ms)
  BY <1>0, <1>3 DEF TypeInv, ProgSet
<1>5. /\ \A x \in Codes \ {c} : code'[x] = code[x]
      /\ code'[c].state \in {"making", "failed"}
      /\ code'[c].state = "making" => ms = prog[p].BRIGs
      /\ code'[c].by = p /\ code'[c].dir = d /\ code'[c].dl = code[c].dl
      /\ code'[c].users = code[c].users /\ code'[c].hostDef = code[c].hostDef
  BY <1>0 DEF TypeInv, CodeSet
<1>6. files \subseteq files'
  BY <1>0
<1>7. MakingInv'
  BY <1>3, <1>4, <1>5 DEF MakingInv, Making
<1>8. InputsKept'
  <2> SUFFICES ASSUME ~ tempDirEnv, NEW x \in Codes, Making(x)'
               PROVE  Brigs(code'[x].dir, x, prog'[code'[x].by].BRIGs) \subseteq files'
    BY <1>3 DEF InputsKept, InputsThere
  <2>1. CASE x = c
    BY <1>0, <1>4, <1>5, <2>1 DEF Making
  <2>2. CASE x # c
    BY <1>4, <1>5, <1>6, <2>2 DEF Making, MakingInv, InputsKept, InputsThere
  <2> QED
    BY <2>1, <2>2
<1>9. TempInv'
  <2> SUFFICES ASSUME NEW q \in Progs, NEW f \in prog'[q].TempFiles
               PROVE  /\ prog'[q].state = "live" /\ f.part \in Modules
                      /\ code'[f.of].by = q /\ code'[f.of].state # "none"
    BY DEF TempInv
  <2>1. CASE q = p /\ f \in Brigs(d, c, ms)
    BY <1>1, <1>4, <1>5, <2>1
  <2>2. CASE f \in prog[q].TempFiles
    <3>1. f.part \in Modules /\ code[f.of].by = q /\ code[f.of].state # "none"
          /\ prog[q].state = "live"
      BY <2>2 DEF TempInv
    <3>2. f.of \in Codes \ {c}
      BY <1>3, <2>2, <3>1, ProgFields DEF FileSet
    <3> QED
      BY <1>4, <1>5, <3>1, <3>2
  <2> QED
    BY <1>4, <2>1, <2>2
<1>10. DirInv'
  <2>1. \A x \in Codes \ {c} : BinaryFile(x)' = BinaryFile(x)
    BY <1>5 DEF BinaryFile
  <2> QED
    BY <1>1, <1>3, <1>5, <1>6, <2>1 DEF DirInv
<1>11. LeftInv'
  <2>1. ASSUME ~ debug, NEW f \in files' PROVE Owned(f)'
    <3>1. CASE f \in Brigs(d, c, ms)
      BY <1>4, <3>1 DEF Owned
    <3>2. CASE f \in files
      <4>1. Owned(f) /\ f.of \in Codes
        BY <2>1, <3>2 DEF LeftInv, TypeInv, FileSet
      <4> QED
        BY <1>3, <1>4, <1>5, <4>1 DEF Owned
    <3> QED
      BY <1>0, <2>1, <3>1, <3>2
  <2>2. ASSUME ~ debug, NEW x \in dirs'
        PROVE  \E y \in Codes : code'[y].state \in {"making", "failed", "live"} /\ code'[y].dir = x
    BY <1>3, <1>5, <2>2 DEF LeftInv
  <2> QED
    BY <1>3, <2>1, <2>2 DEF LeftInv
<1>12. ImageInv'
  BY <1>3, <1>5 DEF ImageInv, LiveExe
<1>13. SymbolsCallable' /\ DefinitionsSeen'
  <2>1. SymbolsCallable'
    <3> SUFFICES ASSUME ~ tempDirEnv, NEW e \in Exes, LiveExe(e), NEW s \in exe[e].symbols
                 PROVE  s.found /\ code'[s.code].state = "live" /\ code'[s.code].dl
      BY <1>3 DEF SymbolsCallable, LiveExe
    <3>1. s.found /\ code[s.code].state = "live" /\ code[s.code].dl /\ s.code \in Codes
      BY <1>3, ExeFields DEF SymbolsCallable, SymbolSet
    <3> QED
      BY <1>3, <1>5, <3>1
  <2>2. DefinitionsSeen'
    BY <1>3, <1>5 DEF DefinitionsSeen, LiveExe
  <2> QED
    BY <2>1, <2>2
<1> QED
  BY <1>2, <1>7, <1>8, <1>9, <1>10, <1>11, <1>12, <1>13

\* The command fails: what was written is left.
LEMMA FailStep ==
  ASSUME IInv, NEW c \in Codes, FailFinalize(c)
  PROVE  IInv'
<1> USE DEF IInv, setting
<1>1. /\ UNCHANGED <<setting, prog, dirs, files, blobs, exe, phase>>
      /\ code' = [code EXCEPT ![c].state = "failed"] /\ code[c].state = "making"
  BY DEF FailFinalize, Making
<1>2. TypeInv'
  BY <1>1 DEF TypeInv, CodeSet
<1>3. /\ \A x \in Codes \ {c} : code'[x] = code[x]
      /\ code'[c].state = "failed" /\ code'[c].dl = code[c].dl
      /\ code'[c].by = code[c].by /\ code'[c].dir = code[c].dir
      /\ code'[c].users = code[c].users /\ code'[c].hostDef = code[c].hostDef
  BY <1>1 DEF TypeInv, CodeSet
<1>4. MakingInv' /\ InputsKept'
  BY <1>1, <1>3 DEF MakingInv, Making, InputsKept, InputsThere
<1>5. TempInv'
  <2>1. \A x \in Codes : code'[x].by = code[x].by /\ (code'[x].state = "none" => code[x].state = "none")
    BY <1>3
  <2>2. \A q \in Progs : \A f \in prog[q].TempFiles : f.of \in Codes
    BY ProgFields DEF FileSet
  <2> QED
    BY <1>1, <2>1, <2>2 DEF TempInv
<1>6. DirInv'
  BY <1>1, <1>3 DEF DirInv, BinaryFile
<1>7. LeftInv'
  <2>1. \A f \in files : Owned(f) => Owned(f)'
    BY <1>1, <1>3 DEF Owned, TypeInv, FileSet
  <2> QED
    BY <1>1, <1>3, <2>1 DEF LeftInv
<1>8. ImageInv'
  BY <1>1, <1>3 DEF ImageInv, LiveExe
<1>9. SymbolsCallable'
  BY <1>1, <1>3 DEF SymbolsCallable, LiveExe
<1>10. DefinitionsSeen'
  BY <1>1, <1>3 DEF DefinitionsSeen, LiveExe
<1> QED
  BY <1>2, <1>4, <1>5, <1>6, <1>7, <1>8, <1>9, <1>10

\* The command succeeds: the binary is there and its kernels are the modules.
LEMMA FinishStep ==
  ASSUME IInv, NEW c \in Codes, FinishFinalize(c)
  PROVE  IInv'
<1> USE DEF IInv, setting
<1>1. /\ UNCHANGED <<setting, prog, dirs, blobs, exe, phase>>
      /\ files' = files \cup {BinaryFile(c)} /\ code[c].state = "making"
  BY DEF FinishFinalize, Making
<1>2. /\ code[c].by \in Progs /\ prog[code[c].by].BRIGs # {} /\ phase = "up"
      /\ prog[code[c].by].BRIGs \subseteq Modules
  BY <1>1, ProgFields DEF MakingInv, Making
<1>3. BinaryFile(c) \in FileSet /\ BinaryFile(c).part = Binary /\ BinaryFile(c).of = c
      /\ BinaryFile(c).dir = code[c].dir
  BY CodeFields, FileFields DEF BinaryFile
<1>4. /\ \A x \in Codes \ {c} : code'[x] = code[x]
      /\ code'[c].state = "live" /\ code'[c].elf = prog[code[c].by].BRIGs
      /\ code'[c].by = code[c].by /\ code'[c].dir = code[c].dir /\ code'[c].dl = code[c].dl
      /\ code'[c].users = code[c].users /\ code'[c].hostDef = code[c].hostDef
  BY DEF FinishFinalize, TypeInv, CodeSet
<1>5. TypeInv'
  <2>1. code' = [code EXCEPT ![c] = [code[c] EXCEPT !.state = "live",
                                                    !.elf = prog[code[c].by].BRIGs]]
    BY DEF FinishFinalize, TypeInv
  <2>2. code' \in [Codes -> CodeSet]
    BY <1>2, <2>1, LiveCode DEF TypeInv
  <2> QED
    BY <1>1, <1>3, <2>2 DEF TypeInv
<1>6. MakingInv' /\ InputsKept'
  BY <1>1, <1>4 DEF MakingInv, Making, InputsKept, InputsThere
<1>7. TempInv'
  <2>1. \A x \in Codes : code'[x].by = code[x].by /\ (code'[x].state = "none" => code[x].state = "none")
    BY <1>4
  <2>2. \A q \in Progs : \A f \in prog[q].TempFiles : f.of \in Codes
    BY ProgFields DEF FileSet
  <2> QED
    BY <1>1, <2>1, <2>2 DEF TempInv
<1>8. DirInv'
  <2>1. \A x \in Codes : BinaryFile(x)' = BinaryFile(x)
    BY <1>4 DEF BinaryFile
  <2> QED
    BY <1>1, <1>4, <2>1 DEF DirInv
<1>9. LeftInv'
  <2>1. \A f \in files : Owned(f) => Owned(f)'
    BY <1>1, <1>4 DEF Owned, TypeInv, FileSet
  <2>2. ASSUME NEW f, f = BinaryFile(c) PROVE Owned(f)'
    BY <1>3, <1>4, <2>2 DEF Owned
  <2> QED
    BY <1>1, <1>2, <1>4, <2>1, <2>2 DEF LeftInv
<1>10. ImageInv'
  BY <1>1, <1>2, <1>4 DEF ImageInv, LiveExe
<1>11. SymbolsCallable'
  BY <1>1, <1>4, ExeFields DEF SymbolsCallable, SymbolSet, LiveExe
<1>12. DefinitionsSeen'
  BY <1>1, <1>4 DEF DefinitionsSeen, LiveExe
<1> QED
  BY <1>5, <1>6, <1>7, <1>8, <1>9, <1>10, <1>11, <1>12

-----------------------------------------------------------------------------
(* Code objects.                                                           *)

\* A code object goes with its directory: one that no executable uses, one
\* whose directives were refused, or any at the last hsa_shut_down.
LEMMA RemoveEffect ==
  ASSUME IInv, NEW c \in Codes, DestroyCode(c) \/ CollectCode(c) \/ MismatchFinalize(c)
  PROVE  /\ UNCHANGED <<setting, prog, blobs, exe, phase>>
         /\ code[c].state \in {"live", "making"} /\ phase # "off"
         /\ \A x \in Codes \ {c} : code'[x] = code[x]
         /\ code'[c].state = "dead" /\ ~ code'[c].dl
         /\ code'[c].by = code[c].by /\ code'[c].users = code[c].users
         /\ phase = "up" /\ code[c].state = "live" => ~ InUse(c)
         /\ debug => files \subseteq files' /\ dirs' = dirs
         /\ ~ debug => RemoveAll(code[c].dir)
         /\ TypeInv'
<1> USE DEF IInv
<1>1. CASE DestroyCode(c) \/ CollectCode(c)
  <2>1. /\ DeleteCode(c) /\ code[c].state = "live" /\ phase # "off"
        /\ UNCHANGED <<setting, prog, blobs, exe, phase>>
        /\ phase = "up" => ~ InUse(c)
    BY <1>1 DEF DestroyCode, CollectCode
  <2>2. /\ code' = [code EXCEPT ![c].state = "dead", ![c].dl = FALSE]
        /\ debug => UNCHANGED <<dirs, files>>
        /\ ~ debug => RemoveAll(code[c].dir)
    BY <2>1 DEF DeleteCode
  <2>3. code' \in [Codes -> CodeSet]
    <3>1. code' = [code EXCEPT ![c] = [code[c] EXCEPT !.state = "dead", !.dl = FALSE]]
      BY <2>2 DEF TypeInv
    <3> QED
      BY <3>1, DeadCode DEF TypeInv
  <2>4. TypeInv'
    BY <2>1, <2>2, <2>3 DEF TypeInv, RemoveAll, setting
  <2> QED
    BY <2>1, <2>2, <2>4 DEF TypeInv, CodeSet
<1>2. CASE MismatchFinalize(c)
  <2>1. /\ code[c].state = "making"
        /\ UNCHANGED <<setting, prog, blobs, exe, phase>>
        /\ code' = [code EXCEPT ![c].state = "dead"]
        /\ debug => files' = files \cup {BinaryFile(c)} /\ UNCHANGED dirs
        /\ ~ debug => RemoveAll(code[c].dir)
    BY <1>2 DEF MismatchFinalize, Making
  <2>2. phase = "up" /\ ~ code[c].dl
    BY <2>1 DEF MakingInv, ImageInv, Making
  <2>3. code' \in [Codes -> CodeSet]
    BY <2>1 DEF TypeInv, CodeSet
  <2>4. BinaryFile(c) \in FileSet
    BY CodeFields, FileFields DEF BinaryFile
  <2>5. TypeInv'
    BY <2>1, <2>3, <2>4 DEF TypeInv, RemoveAll, setting
  <2> QED
    BY <2>1, <2>2, <2>5 DEF TypeInv, CodeSet
<1> QED
  BY <1>1, <1>2

\* A code object goes, and its directory with it.
LEMMA RemoveStep ==
  ASSUME IInv, NEW c \in Codes, DestroyCode(c) \/ CollectCode(c) \/ MismatchFinalize(c)
  PROVE  IInv'
<1>1. TypeInv' /\ IInv
  BY RemoveEffect
<1> USE DEF IInv, setting
<1>2. /\ UNCHANGED <<setting, prog, blobs, exe, phase>>
      /\ code[c].state \in {"live", "making"} /\ phase # "off"
      /\ \A x \in Codes \ {c} : code'[x] = code[x]
      /\ code'[c].state = "dead" /\ ~ code'[c].dl
      /\ code'[c].by = code[c].by /\ code'[c].users = code[c].users
      /\ phase = "up" /\ code[c].state = "live" => ~ InUse(c)
  BY RemoveEffect
<1>3. \A f \in files : f.dir # code[c].dir => f \in files'
  BY RemoveEffect DEF RemoveAll
<1>4. MakingInv'
  BY <1>2 DEF MakingInv, Making
<1>5. InputsKept'
  <2> SUFFICES ASSUME ~ tempDirEnv, NEW x \in Codes, x # c, Making(x),
                      NEW f \in Brigs(code[x].dir, x, prog[code[x].by].BRIGs)
               PROVE  f \in files'
    BY <1>2 DEF InputsKept, InputsThere, Making
  <2>1. f \in files /\ code[x].by \in Progs /\ code[x].dir = x /\ code[c].dir = c
    BY <1>2 DEF InputsKept, InputsThere, MakingInv, DirInv, Making
  <2>2. f.dir = x
    BY <2>1, ProgFields, CodeFields, BrigFields
  <2> QED
    BY <1>3, <2>1, <2>2
<1>6. TempInv'
  <2>1. \A x \in Codes : code'[x].by = code[x].by /\ (code'[x].state = "none" => code[x].state = "none")
    BY <1>2
  <2>2. \A q \in Progs : \A f \in prog[q].TempFiles : f.of \in Codes
    BY ProgFields DEF FileSet
  <2> QED
    BY <1>2, <2>1, <2>2 DEF TempInv
<1>7. DirInv'
  <2> SUFFICES ASSUME ~ tempDirEnv, NEW x \in Codes, x # c
               PROVE  /\ code[x].state # "none" => code[x].dir = x
                      /\ code[x].state = "live" => BinaryFile(x) \in files'
    <3>1. code'[c].state = "dead" /\ code'[c].dir = code[c].dir
      BY DEF DestroyCode, CollectCode, MismatchFinalize, DeleteCode, TypeInv, CodeSet
    <3>2. ~ tempDirEnv => code[c].dir = c
      BY <1>2 DEF DirInv
    <3>3. \A x \in Codes \ {c} : BinaryFile(x)' = BinaryFile(x)
      BY <1>2 DEF BinaryFile
    <3> QED
      BY <1>2, <3>1, <3>2, <3>3 DEF DirInv
  <2>1. CASE code[x].state = "live"
    <3>1. code[x].dir = x /\ code[c].dir = c /\ BinaryFile(x) \in files
      BY <1>2, <2>1 DEF DirInv
    <3>2. BinaryFile(x).dir = x
      BY <3>1, CodeFields, FileFields DEF BinaryFile
    <3> QED
      BY <1>3, <3>1, <3>2
  <2> QED
    BY <2>1 DEF DirInv
<1>8. LeftInv'
  <2>1. ASSUME ~ debug PROVE /\ dirs' = dirs \ {code[c].dir}
                             /\ files' = {f \in files : f.dir # code[c].dir}
    BY <2>1, RemoveEffect DEF RemoveAll
  <2>2. ASSUME ~ debug, NEW f \in files' PROVE Owned(f)'
    <3>1. f \in files /\ f.dir # code[c].dir /\ Owned(f) /\ f.of \in Codes
      BY <2>1, <2>2 DEF LeftInv, TypeInv, FileSet
    <3> QED
      BY <1>2, <3>1 DEF Owned
  <2> QED
    BY <1>2, <2>1, <2>2 DEF LeftInv
<1>9. ImageInv'
  BY <1>2 DEF ImageInv, LiveExe
<1>10. SymbolsCallable'
  <2> SUFFICES ASSUME phase = "up", ~ tempDirEnv, NEW e \in Exes, LiveExe(e),
                      NEW s \in exe[e].symbols
               PROVE  s.found /\ code'[s.code].state = "live" /\ code'[s.code].dl
    BY <1>2 DEF SymbolsCallable, LiveExe
  <2>1. s.found /\ code[s.code].state = "live" /\ code[s.code].dl /\ s.code \in Codes
    BY ExeFields DEF SymbolsCallable, SymbolSet
  <2>2. s.code # c
    BY <1>2, <2>1 DEF InUse
  <2> QED
    BY <1>2, <2>1, <2>2
<1>11. DefinitionsSeen'
  BY <1>2 DEF DefinitionsSeen, LiveExe
<1> QED
  BY <1>1, <1>4, <1>5, <1>6, <1>7, <1>8, <1>9, <1>10, <1>11

\* A deserialized code object has a directory of its own and its binary there.
LEMMA DeserializeStep ==
  ASSUME IInv, NEW c \in Codes, NEW elf \in blobs, Deserialize(c, elf)
  PROVE  IInv'
<1> USE DEF IInv, setting
<1>1. /\ UNCHANGED <<setting, prog, blobs, exe, phase>> /\ phase = "up"
      /\ code[c].state = "none" /\ elf \in SUBSET Modules /\ elf # {}
      /\ dirs' = dirs \cup {c} /\ files' = files \cup {File(c, c, Binary)}
  BY DEF Deserialize, DeserializeDir, TypeInv, ImageInv
<1>2. /\ File(c, c, Binary) \in FileSet /\ File(c, c, Binary).part = Binary
      /\ File(c, c, Binary).of = c /\ File(c, c, Binary).dir = c /\ c \in Places
  BY FileFields DEF Places
<1>3. /\ \A x \in Codes \ {c} : code'[x] = code[x]
      /\ code'[c].state = "live" /\ code'[c].elf = elf /\ code'[c].dir = c
      /\ code'[c].by = code[c].by /\ code'[c].dl = code[c].dl
      /\ code'[c].users = code[c].users /\ code'[c].hostDef = code[c].hostDef
  BY DEF Deserialize, DeserializeDir, TypeInv, CodeSet
<1>4. TypeInv'
  <2>1. code' = [code EXCEPT ![c] = [[code[c] EXCEPT !.dir = c] EXCEPT !.state = "live", !.elf = elf]]
    BY DEF Deserialize, DeserializeDir, TypeInv, CodeSet
  <2>2. [code[c] EXCEPT !.dir = c] \in CodeSet
    BY <1>2 DEF TypeInv, CodeSet
  <2>3. [[code[c] EXCEPT !.dir = c] EXCEPT !.state = "live", !.elf = elf] \in CodeSet
    BY <1>1, <2>2, LiveCode
  <2>4. code' \in [Codes -> CodeSet]
    BY <2>1, <2>3 DEF TypeInv
  <2> QED
    BY <1>1, <1>2, <2>4 DEF TypeInv
<1>5. MakingInv' /\ InputsKept'
  BY <1>1, <1>3 DEF MakingInv, Making, InputsKept, InputsThere
<1>6. TempInv'
  <2>1. \A x \in Codes : code'[x].by = code[x].by /\ (code'[x].state = "none" => code[x].state = "none")
    BY <1>3
  <2>2. \A q \in Progs : \A f \in prog[q].TempFiles : f.of \in Codes
    BY ProgFields DEF FileSet
  <2> QED
    BY <1>1, <2>1, <2>2 DEF TempInv
<1>7. DirInv'
  <2>1. BinaryFile(c)' = File(c, c, Binary) /\ \A x \in Codes \ {c} : BinaryFile(x)' = BinaryFile(x)
    BY <1>3 DEF BinaryFile
  <2> QED
    BY <1>1, <1>3, <2>1 DEF DirInv
<1>8. LeftInv'
  <2>1. \A f \in files : Owned(f) => Owned(f)'
    BY <1>1, <1>3 DEF Owned, TypeInv, FileSet
  <2>2. Owned(File(c, c, Binary))'
    BY <1>2, <1>3 DEF Owned, File
  <2> QED
    BY <1>1, <1>3, <2>1, <2>2 DEF LeftInv
<1>9. ImageInv'
  BY <1>1, <1>3 DEF ImageInv, LiveExe
<1>10. SymbolsCallable'
  BY <1>1, <1>3, ExeFields DEF SymbolsCallable, SymbolSet, LiveExe
<1>11. DefinitionsSeen'
  BY <1>1, <1>3 DEF DefinitionsSeen, LiveExe, ImageInv
<1> QED
  BY <1>4, <1>5, <1>6, <1>7, <1>8, <1>9, <1>10, <1>11

-----------------------------------------------------------------------------
(* Executables.                                                            *)

\* What does not touch the executables, the code objects' images and the
\* files keeps the invariants about them.
LEMMA SameFiles ==
  ASSUME IInv, UNCHANGED <<setting, prog, dirs, files, code, phase>>
  PROVE  MakingInv' /\ TempInv' /\ DirInv' /\ LeftInv' /\ InputsKept'
<1> USE DEF IInv, setting
<1>1. MakingInv' /\ TempInv' /\ InputsKept'
  BY DEF MakingInv, TempInv, InputsKept, InputsThere, Making
<1>2. DirInv'
  BY DEF DirInv, BinaryFile
<1>3. LeftInv'
  BY DEF LeftInv, Owned
<1> QED
  BY <1>1, <1>2, <1>3

\* An executable is created, destroyed or frozen, or a host variable defined
\* in it: nothing is loaded, and a definition after a load is noted.
LEMMA ExecutableStep ==
  ASSUME IInv, NEW e \in Exes,
         \/ CreateExecutable(e) \/ DestroyExecutable(e) \/ Freeze(e)
         \/ \E n \in Names, a \in Addrs : DefineVariable(e, n, a)
  PROVE  IInv'
<1> USE DEF IInv
<1>1. /\ UNCHANGED <<setting, prog, dirs, files, code, blobs, phase>>
      /\ \A x \in Exes \ {e} : exe'[x] = exe[x]
  BY DEF CreateExecutable, DestroyExecutable, Freeze, DefineVariable, TypeInv
<1>2. /\ exe'[e].state # "none" /\ exe'[e] \in ExeSet
      /\ exe'[e].state \in {"unfrozen", "frozen"} =>
           /\ exe[e].state # "dead" /\ exe'[e].symbols = exe[e].symbols
           /\ exe[e].state = "none" \/ LiveExe(e)
           /\ ~ exe'[e].late =>
                ~ exe[e].late /\ (exe'[e].DefinedSymbols = exe[e].DefinedSymbols \/ exe[e].symbols = {})
  <2>1. CASE CreateExecutable(e) \/ Freeze(e)
    BY <2>1 DEF CreateExecutable, Freeze, TypeInv, ExeSet, LiveExe
  <2>2. CASE DestroyExecutable(e)
    BY <2>2 DEF DestroyExecutable, TypeInv, ExeSet, NoExe, Definitions
  <2>3. ASSUME NEW n \in Names, NEW a \in Addrs, DefineVariable(e, n, a)
        PROVE  /\ exe'[e].state = exe[e].state /\ LiveExe(e) /\ exe'[e] \in ExeSet
               /\ exe'[e].symbols = exe[e].symbols
               /\ ~ exe'[e].late => ~ exe[e].late /\ exe[e].symbols = {}
    <3>1. /\ LiveExe(e)
          /\ exe' = [exe EXCEPT ![e].DefinedSymbols[n] = a,
                                ![e].late = @ \/ exe[e].symbols # {}]
      BY <2>3 DEF DefineVariable
    <3> QED
      BY <3>1 DEF TypeInv, ExeSet, Definitions
  <2> QED
    BY <2>1, <2>2, <2>3 DEF LiveExe
<1>3. TypeInv'
  <2>1. exe' \in [Exes -> ExeSet]
    <3>1. DOMAIN exe' = Exes /\ exe' = [x \in Exes |-> exe'[x]]
      BY DEF CreateExecutable, DestroyExecutable, Freeze, DefineVariable, TypeInv
    <3> QED
      BY <1>1, <1>2, <3>1 DEF TypeInv
  <2> QED
    BY <1>1, <2>1 DEF TypeInv, setting
<1>4. ImageInv'
  <2>1. ASSUME NEW c \in Codes, NEW x \in code[c].users
        PROVE  exe'[x].state # "none" /\ (LiveExe(x)' => exe'[x].symbols # {})
    <3>1. x \in Exes /\ exe[x].state # "none" /\ (LiveExe(x) => exe[x].symbols # {})
      BY CodeFields DEF ImageInv
    <3> QED
      BY <1>1, <1>2, <3>1 DEF LiveExe
  <2>2. \A x \in Exes : exe'[x].state = "none" => exe'[x].symbols = {}
    BY <1>1, <1>2 DEF ImageInv
  <2> QED
    BY <1>1, <2>1, <2>2 DEF ImageInv
<1>5. ASSUME NEW x \in Exes, LiveExe(x)'
      PROVE  /\ exe'[x].symbols = exe[x].symbols
             /\ exe[x].symbols # {} => LiveExe(x)
  BY <1>1, <1>2, <1>5 DEF LiveExe, ImageInv
<1>6. SymbolsCallable'
  BY <1>1, <1>5 DEF SymbolsCallable, setting
<1>7. DefinitionsSeen'
  <2> SUFFICES ASSUME NEW x \in Exes, NEW c \in Codes, LiveExe(x)', ~ exe'[x].late,
                      code[c].users = {x}, code[c].dl
               PROVE  code[c].hostDef = exe'[x].DefinedSymbols
    BY <1>1 DEF DefinitionsSeen
  <2>1. LiveExe(x) /\ exe[x].symbols # {}
    <3>1. exe[x].state # "none" /\ (LiveExe(x) => exe[x].symbols # {})
      BY DEF ImageInv
    <3> QED
      BY <1>1, <1>2, <3>1 DEF LiveExe
  <2>2. ~ exe[x].late /\ exe'[x].DefinedSymbols = exe[x].DefinedSymbols
    BY <1>1, <1>2, <2>1 DEF LiveExe
  <2> QED
    BY <2>1, <2>2 DEF DefinitionsSeen
<1> QED
  BY <1>1, <1>3, <1>4, <1>6, <1>7, SameFiles

\* A code object is loaded: its image is there to be opened, and it sees what
\* the executable has defined.
LEMMA LoadStep ==
  ASSUME IInv, NEW e \in Exes, NEW c \in Codes, LoadCodeObject(e, c)
  PROVE  IInv'
<1> USE DEF IInv, setting
<1> DEFINE S == {Symbol(c, m, dlhandle(c)) : m \in code[c].elf}
           defs == exe[e].DefinedSymbols
<1>1. /\ UNCHANGED <<setting, prog, dirs, files, blobs, phase>> /\ phase = "up"
      /\ exe[e].state = "unfrozen" /\ code[c].state = "live"
  BY DEF LoadCodeObject
<1>2. /\ dlhandle(c) \in BOOLEAN /\ (code[c].dl => dlhandle(c))
      /\ ~ tempDirEnv => dlhandle(c)
  BY <1>1, CodeFields DEF dlhandle, DirInv
<1>3. /\ S \subseteq SymbolSet /\ S # {}
      /\ \A s \in S : s.code = c /\ s.found = dlhandle(c)
  <2>1. code[c].elf # {} /\ code[c].elf \subseteq Modules
    BY <1>1, CodeFields DEF ImageInv
  <2>2. \A m \in Modules : /\ Symbol(c, m, dlhandle(c)) \in SymbolSet
                          /\ Symbol(c, m, dlhandle(c)).code = c
                          /\ Symbol(c, m, dlhandle(c)).found = dlhandle(c)
    BY <1>2 DEF Symbol, SymbolSet
  <2> QED
    BY <2>1, <2>2
<1>4. /\ \A x \in Codes \ {c} : code'[x] = code[x]
      /\ code'[c].state = "live" /\ code'[c].elf = code[c].elf /\ code'[c].dir = code[c].dir
      /\ code'[c].by = code[c].by /\ code'[c].dl = dlhandle(c)
      /\ code'[c].users = code[c].users \cup {e}
      /\ code'[c].hostDef = defineGlobalSymbolAddress(c, defs)
      /\ code' \in [Codes -> CodeSet]
  <2> DEFINE r == [code[c] EXCEPT !.hostDef = defineGlobalSymbolAddress(c, defs),
                                  !.dl = dlhandle(c), !.users = @ \cup {e}]
  <2>1. code' = [code EXCEPT ![c] = r]
    BY DEF LoadCodeObject, TypeInv, CodeSet
  <2>2. defineGlobalSymbolAddress(c, defs) \in Definitions
    BY CodeFields, ExeFields DEF defineGlobalSymbolAddress, Definitions
  <2> HIDE DEF defs
  <2>3. /\ r \in CodeSet /\ r.state = code[c].state /\ r.elf = code[c].elf
        /\ r.dir = code[c].dir /\ r.by = code[c].by /\ r.dl = dlhandle(c)
        /\ r.users = code[c].users \cup {e}
        /\ r.hostDef = defineGlobalSymbolAddress(c, defs)
    BY <1>2, <2>2 DEF TypeInv, CodeSet
  <2> HIDE DEF r
  <2> QED
    BY <1>1, <2>1, <2>3 DEF TypeInv
<1>5. /\ \A x \in Exes \ {e} : exe'[x] = exe[x]
      /\ exe'[e].state = "unfrozen" /\ exe'[e].symbols = exe[e].symbols \cup S
      /\ exe'[e].DefinedSymbols = defs /\ exe'[e].late = exe[e].late
      /\ exe' \in [Exes -> ExeSet]
  <2>1. PICK b \in [Modules -> SymbolSet \cup {NULL}] :
          exe' = [exe EXCEPT ![e] = [exe[e] EXCEPT !.symbols = @ \cup S, !.byName = b]]
    <3> DEFINE b == [m \in Modules |-> IF m \in code[c].elf THEN Symbol(c, m, dlhandle(c))
                                        ELSE exe[e].byName[m]]
    <3>1. b \in [Modules -> SymbolSet \cup {NULL}]
      BY <1>2, ExeFields DEF Symbol, SymbolSet
    <3>2. exe' = [exe EXCEPT ![e] = [exe[e] EXCEPT !.symbols = @ \cup S, !.byName = b]]
      BY DEF LoadCodeObject, TypeInv, ExeSet
    <3> QED
      BY <3>1, <3>2
  <2> HIDE DEF S
  <2> DEFINE r == [exe[e] EXCEPT !.symbols = @ \cup S, !.byName = b]
  <2>2. /\ r \in ExeSet /\ r.state = exe[e].state /\ r.symbols = exe[e].symbols \cup S
        /\ r.DefinedSymbols = defs /\ r.late = exe[e].late
    BY <1>3 DEF TypeInv, ExeSet
  <2> HIDE DEF r
  <2> QED
    BY <1>1, <2>1, <2>2 DEF TypeInv, r
<1> HIDE DEF S
<1>6. TypeInv'
  BY <1>1, <1>4, <1>5 DEF TypeInv
<1>7. MakingInv' /\ InputsKept' /\ TempInv'
  <2>1. MakingInv' /\ InputsKept'
    BY <1>1, <1>4 DEF MakingInv, Making, InputsKept, InputsThere
  <2>2. \A x \in Codes : code'[x].by = code[x].by /\ (code'[x].state = "none" => code[x].state = "none")
    BY <1>4
  <2>3. \A q \in Progs : \A f \in prog[q].TempFiles : f.of \in Codes
    BY ProgFields DEF FileSet
  <2> QED
    BY <1>1, <2>1, <2>2, <2>3 DEF TempInv
<1>8. DirInv'
  <2>1. \A x \in Codes : /\ code'[x].state = code[x].state /\ code'[x].dir = code[x].dir
                         /\ BinaryFile(x)' = BinaryFile(x)
    BY <1>1, <1>4 DEF BinaryFile
  <2> QED
    BY <1>1, <2>1 DEF DirInv
<1>9. LeftInv'
  <2>1. \A x \in Codes : code'[x].state = code[x].state /\ code'[x].dir = code[x].dir
    BY <1>1, <1>4
  <2>2. \A f \in files : Owned(f) => Owned(f)'
    BY <1>1, <2>1 DEF Owned, TypeInv, FileSet
  <2> QED
    BY <1>1, <2>1, <2>2 DEF LeftInv
<1>10. SymbolsCallable'
  <2> SUFFICES ASSUME ~ tempDirEnv, NEW x \in Exes, LiveExe(x)', NEW s \in exe'[x].symbols
               PROVE  s.found /\ code'[s.code].state = "live" /\ code'[s.code].dl
    BY <1>1 DEF SymbolsCallable
  <2>1. CASE s \in S
    BY <1>2, <1>3, <1>4, <2>1
  <2>2. CASE s \in exe[x].symbols
    <3>1. s.found /\ code[s.code].state = "live" /\ code[s.code].dl /\ s.code \in Codes
      BY <1>1, <1>5, <2>2, ExeFields DEF SymbolsCallable, SymbolSet, LiveExe
    <3> QED
      BY <1>2, <1>4, <3>1
  <2> QED
    BY <1>5, <2>1, <2>2
<1>11. defineGlobalSymbolAddress(c, defs) = IF dlhandle(c)
         THEN [n \in Names |-> IF defs[n] # NULL THEN defs[n] ELSE code[c].hostDef[n]]
         ELSE code[c].hostDef
  BY CodeFields DEF defineGlobalSymbolAddress, Definitions
<1>12. ImageInv'
  <2>1. \A x \in Exes : exe'[x].symbols = {} => exe[x].symbols = {} /\ x # e
    BY <1>3, <1>5
  <2>2. \A x \in Exes : exe'[x].state = exe[x].state
    BY <1>1, <1>5
  <2> SUFFICES ASSUME NEW x \in Codes
               PROVE  /\ code'[x].state # "live" => ~ code'[x].dl
                      /\ code'[x].state \in {"none", "making", "failed"} => code'[x].users = {}
                      /\ code'[x].state # "dead" /\ ~ code'[x].dl =>
                           code'[x].hostDef = [n \in Names |-> NULL]
                      /\ code'[x].dl => code'[x].users # {}
                      /\ code'[x].state = "live" => code'[x].elf # {}
                      /\ \A y \in code'[x].users :
                           exe'[y].state # "none" /\ (LiveExe(y)' => exe'[y].symbols # {})
    <3>1. \A x \in Exes : exe'[x].state = "none" => exe'[x].symbols = {}
      BY <1>1, <1>5 DEF ImageInv
    <3>2. {} \notin blobs'
      BY <1>1 DEF ImageInv
    <3> QED
      BY <3>1, <3>2 DEF ImageInv
  <2>3. ASSUME NEW y \in code'[x].users
        PROVE  exe'[y].state # "none" /\ (LiveExe(y)' => exe'[y].symbols # {})
    <3>1. CASE y = e
      BY <1>5, <2>1, <3>1
    <3>2. CASE y \in code[x].users
      BY <2>1, <2>2, <3>2, CodeFields DEF ImageInv, LiveExe
    <3> QED
      BY <1>4, <2>3, <3>1, <3>2
  <2>4. CASE x = c
    BY <1>1, <1>2, <1>4, <1>11, <2>3, <2>4 DEF ImageInv
  <2>5. CASE x # c
    BY <1>4, <2>3, <2>5 DEF ImageInv
  <2> QED
    BY <2>4, <2>5
<1>13. DefinitionsSeen'
  <2> SUFFICES ASSUME NEW x \in Exes, NEW y \in Codes, LiveExe(x)', ~ exe'[x].late,
                      code'[y].users = {x}, code'[y].dl
               PROVE  code'[y].hostDef = exe'[x].DefinedSymbols
    BY DEF DefinitionsSeen
  <2>1. /\ LiveExe(x) /\ exe'[x].late = exe[x].late
        /\ exe'[x].DefinedSymbols = exe[x].DefinedSymbols
    BY <1>1, <1>5 DEF LiveExe
  <2>2. CASE y # c
    BY <1>4, <2>1, <2>2 DEF DefinitionsSeen
  <2>3. CASE y = c
    <3>1. x = e /\ dlhandle(c) /\ code[c].users \subseteq {e}
      BY <1>4, <2>3
    <3>2. code[c].hostDef = [n \in Names |-> NULL] \/ code[c].hostDef = defs
      <4>1. CASE ~ code[c].dl
        BY <1>1, <4>1 DEF ImageInv
      <4>2. CASE code[c].dl /\ code[c].users = {e}
        BY <2>1, <3>1, <4>2 DEF DefinitionsSeen
      <4>3. code[c].dl => code[c].users = {e}
        BY <3>1 DEF ImageInv
      <4> QED
        BY <4>1, <4>2, <4>3
    <3>3. defs \in [Names -> Addrs \cup {NULL}]
      BY ExeFields DEF Definitions
    <3>4. code'[c].hostDef = [n \in Names |-> IF defs[n] # NULL THEN defs[n] ELSE code[c].hostDef[n]]
      BY <1>4, <1>11, <3>1
    <3> HIDE DEF defs
    <3>5. code'[c].hostDef = defs
      BY <3>2, <3>3, <3>4
    <3> QED
      BY <1>5, <2>3, <3>1, <3>5
  <2> QED
    BY <2>2, <2>3
<1> QED
  BY <1>6, <1>7, <1>8, <1>9, <1>10, <1>12, <1>13

-----------------------------------------------------------------------------
(* All steps.                                                              *)

\* An image is serialized, the runtime is shut down, or nothing happens.
LEMMA OtherStep ==
  ASSUME IInv,
         \/ \E c \in Codes : Serialize(c)
         \/ ShutDown \/ Collected \/ UNCHANGED vars
  PROVE  IInv'
<1> USE DEF IInv, setting
<1>1. UNCHANGED <<setting, prog, dirs, files, code, exe>>
  BY DEF Serialize, ShutDown, Collected, vars
<1>2. /\ phase' \in {"up", "collect", "off"}
      /\ phase' = "up" => phase = "up"
      /\ blobs' = blobs \/ \E c \in Codes : code[c].state = "live" /\ blobs' = blobs \cup {code[c].elf}
      /\ phase' # phase => \A c \in Codes : ~ Making(c)
      /\ phase' = "off" => phase = "off" \/ /\ \A c \in Codes : code[c].state # "live"
                                            /\ \A p \in Progs : prog[p].state # "live"
  BY DEF Serialize, ShutDown, Collected, vars, TypeInv, MakingInv
<1>3. TypeInv' /\ {} \notin blobs'
  BY <1>1, <1>2, CodeFields DEF TypeInv, ImageInv
<1>4. MakingInv' /\ TempInv' /\ InputsKept'
  BY <1>1, <1>2 DEF MakingInv, TempInv, InputsKept, InputsThere, Making
<1>5. DirInv' /\ ImageInv'
  BY <1>1, <1>3 DEF DirInv, BinaryFile, ImageInv, LiveExe
<1>6. LeftInv'
  <2>1. \A f \in files : Owned(f)' <=> Owned(f)
    BY <1>1 DEF Owned
  <2> QED
    BY <1>1, <1>2, <2>1 DEF LeftInv
<1>7. SymbolsCallable' /\ DefinitionsSeen'
  BY <1>1, <1>2 DEF SymbolsCallable, DefinitionsSeen, LiveExe
<1> QED
  BY <1>3, <1>4, <1>5, <1>6, <1>7

\* Every step preserves the invariant.
LEMMA NextInv == IInv /\ [Next]_vars => IInv'
<1> SUFFICES ASSUME IInv, [Next]_vars PROVE IInv'
  OBVIOUS
<1>1. ASSUME NEW p \in Progs,
             \/ CreateProgram(p) \/ DestroyProgram(p) \/ CollectProgram(p)
             \/ \E m \in Modules : AddModule(p, m)
             \/ \E c \in Codes : StartFinalize(p, c)
      PROVE  IInv'
  BY <1>1, GrowProgram, ShrinkProgram, StartStep
<1>2. ASSUME NEW c \in Codes,
             \/ FailFinalize(c) \/ FinishFinalize(c) \/ MismatchFinalize(c)
             \/ Serialize(c) \/ DestroyCode(c) \/ CollectCode(c)
             \/ \E elf \in blobs : Deserialize(c, elf)
      PROVE  IInv'
  BY <1>2, FailStep, FinishStep, RemoveStep, DeserializeStep, OtherStep
<1>3. ASSUME NEW e \in Exes,
             \/ CreateExecutable(e) \/ DestroyExecutable(e) \/ Freeze(e)
             \/ \E c \in Codes : LoadCodeObject(e, c)
             \/ \E n \in Names, a \in Addrs : DefineVariable(e, n, a)
      PROVE  IInv'
  BY <1>3, ExecutableStep, LoadStep
<1> QED
  BY <1>1, <1>2, <1>3, OtherStep DEF Next

\* Every symbol that a live executable gives out has an address in a mapped
\* image, unless PHSA_COMPILER_TEMP_DIR makes all finalizations share a
\* directory: ELFExecutable::LoadCodeObject, which opens the binary late and
\* succeeds when it is gone, never finds it gone.
THEOREM SymbolsStayCallable == Spec => []SymbolsCallable
<1>1. IInv => SymbolsCallable
  BY DEF IInv
<1> QED
  BY <1>1, InitInv, NextInv, PTL DEF Spec

\* The BRIG files that HSAILProgram::dumpBRIGS wrote are there when the command
\* of GCCFinalizer::finalizeProgram reads them.
THEOREM InputsStay == Spec => []InputsKept
<1>1. IInv => InputsKept
  BY DEF IInv
<1> QED
  BY <1>1, InitInv, NextInv, PTL DEF Spec

\* The destructors that the last hsa_shut_down runs leave no file behind, out
\* of debug mode, and no directory but those of failed finalizations.
THEOREM NothingLeft == Spec => []NoFileLeft
<1>1. IInv => NoFileLeft
  <2> SUFFICES ASSUME IInv, phase = "off", ~ debug
               PROVE  /\ files = {}
                      /\ \A d \in dirs : \E c \in Codes :
                           code[c].state = "failed" /\ code[c].dir = d
    BY DEF NoFileLeft
  <2>1. \A f \in files : FALSE
    <3> SUFFICES ASSUME NEW f \in files PROVE FALSE
      OBVIOUS
    <3>1. Owned(f) /\ f.of \in Codes
      BY DEF IInv, LeftInv, TypeInv, FileSet
    <3> QED
      BY <3>1 DEF IInv, LeftInv, Owned, TempInv
  <2>2. \A c \in Codes : code[c].state \notin {"live", "making"}
    BY DEF IInv, LeftInv, MakingInv, Making
  <2> QED
    BY <2>1, <2>2 DEF IInv, LeftInv
<1> QED
  BY <1>1, InitInv, NextInv, PTL DEF Spec

\* The image of a code object that one executable has loaded holds what the
\* host defined in that executable before it loaded anything
\* (DLFinalizedProgram::defineGlobalSymbolAddress).
THEOREM DefinitionsAreSeen == Spec => []DefinitionsSeen
<1>1. IInv => DefinitionsSeen
  BY DEF IInv
<1> QED
  BY <1>1, InitInv, NextInv, PTL DEF Spec
=============================================================================
