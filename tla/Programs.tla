------------------------------ MODULE Programs ------------------------------
(***************************************************************************)
(* From BRIG modules to callable kernels: HSAIL programs (HSAILProgram.cc),*)
(* their finalization by the gccbrig command (GCCFinalizer.cc), the code   *)
(* objects it makes (FinalizedProgram.cc, DLFinalizedProgram.cc), their    *)
(* serialization (hsa_code.cc), and the executables that load them         *)
(* (ELFExecutable.cc, Executable.hh, hsa_executable.cc).                   *)
(*                                                                         *)
(* A code object keeps the compiled image in memory, from which the names  *)
(* of its kernels are read, and on disk, from which dlopen() maps it when  *)
(* an executable first needs an address.  The two can disagree: the file   *)
(* lives in a temporary directory that other calls remove.                 *)
(*                                                                         *)
(* Files are records with the directory they are in, the code object they  *)
(* are made for and their part: a module (its BRIG) or Binary.  A kernel   *)
(* carries the name of its module.  Clients keep the rules the code relies *)
(* on: hsa_code.cc:92-99 (an executable is destroyed before its code       *)
(* objects), one call at a time on a program, and no call during the last  *)
(* hsa_shut_down.  Calls that are refused change nothing and are left out. *)
(***************************************************************************)
EXTENDS Naturals

CONSTANTS
  Progs,        \* HSAIL programs of a behaviour
  Modules,      \* BRIG modules
  Compatible,   \* those of the programs' profile and machine model
  Codes,        \* code objects, one for each finalization or deserialization
  Exes,         \* executables of a behaviour
  Names,        \* host variables the images declare
  Addrs,        \* addresses the host gives them
  Binary,       \* the part of a file that is the compiled image
  Shared,       \* the directory PHSA_COMPILER_TEMP_DIR names
  NULL

ASSUME ProgramsAssumption ==
  /\ Compatible \subseteq Modules
  /\ Binary \notin Modules
  /\ Shared \notin Codes
  /\ NULL \notin Addrs \cup Progs

VARIABLES
  tempDirEnv,   \* is PHSA_COMPILER_TEMP_DIR set?
  debug,        \* IsDebugMode(), read once
  prog,         \* per program: its state, BRIGs and TempFiles
  dirs, files,  \* the file system under the temporary directories
  code,         \* per code object: see NoCode
  blobs,        \* images the clients hold in serialized form
  exe,          \* per executable: see NoExe
  phase         \* of the runtime: "up", "collect" or "off"

setting == <<tempDirEnv, debug>>
vars == <<setting, prog, dirs, files, code, blobs, exe, phase>>

NoProg == [state |-> "none", BRIGs |-> {}, TempFiles |-> {}]

\* by: the program that is finalized; dir: where BinaryFileName is; elf: the
\* kernels of the image in memory; dl: whether Dlhandle is open; hostDef:
\* the host definitions written to the mapped image; users: the executables
\* that have loaded it.
NoCode == [state |-> "none", by |-> NULL, dir |-> Shared, elf |-> {},
           dl |-> FALSE, hostDef |-> [n \in Names |-> NULL], users |-> {}]

\* symbols: the symbols registered, with whether they have an address;
\* byName: the last one registered for each name; late: whether a definition
\* came after a load.
NoExe == [state |-> "none", symbols |-> {}, byName |-> [m \in Modules |-> NULL],
          DefinedSymbols |-> [n \in Names |-> NULL], late |-> FALSE]

Init ==
  /\ tempDirEnv \in BOOLEAN
  /\ debug \in BOOLEAN
  /\ prog = [p \in Progs |-> NoProg]
  /\ dirs = {}
  /\ files = {}
  /\ code = [c \in Codes |-> NoCode]
  /\ blobs = {}
  /\ exe = [e \in Exes |-> NoExe]
  /\ phase = "up"

File(d, c, part) == [dir |-> d, of |-> c, part |-> part]
Brigs(d, c, ms) == {File(d, c, m) : m \in ms}
BinaryFile(c) == File(code[c].dir, c, Binary)

Symbol(c, m, found) == [code |-> c, name |-> m, found |-> found]

\* A code object whose finalization is under way.
Making(c) == code[c].state = "making"
Busy(p) == \E c \in Codes : Making(c) /\ code[c].by = p

LiveExe(e) == exe[e].state \in {"unfrozen", "frozen"}

-----------------------------------------------------------------------------
(* Programs.                                                               *)

\* hsa_ext_program_create
CreateProgram(p) ==
  /\ phase = "up"
  /\ prog[p].state = "none"
  /\ prog' = [prog EXCEPT ![p].state = "live"]
  /\ UNCHANGED <<setting, dirs, files, code, blobs, exe, phase>>

\* hsa_ext_program_add_module: an incompatible module is refused, and one the
\* program already has.
AddModule(p, m) ==
  /\ phase = "up"
  /\ prog[p].state = "live" /\ ~Busy(p)
  /\ m \in Compatible
  /\ m \notin prog[p].BRIGs
  /\ prog' = [prog EXCEPT ![p].BRIGs = @ \cup {m}]
  /\ UNCHANGED <<setting, dirs, files, code, blobs, exe, phase>>

\* Faulty variant: the destructor forgets its temporary files.
DeleteProgramKeepingFiles(p) ==
  /\ prog' = [prog EXCEPT ![p].state = "dead"]
  /\ UNCHANGED files

\* HSAILProgram::~HSAILProgram unlinks the BRIG files it knows of.
DeleteProgram(p) ==
  /\ prog' = [prog EXCEPT ![p].state = "dead", ![p].TempFiles = {}]
  /\ files' = IF debug THEN files ELSE files \ prog[p].TempFiles

\* hsa_ext_program_destroy
DestroyProgram(p) ==
  /\ phase = "up"
  /\ prog[p].state = "live" /\ ~Busy(p)
  /\ DeleteProgram(p)
  /\ UNCHANGED <<setting, dirs, code, blobs, exe, phase>>

-----------------------------------------------------------------------------
(* Finalization.                                                           *)

\* Faulty variant: one fixed directory for every finalization.
TempDirFixed(p, c) == Shared

\* The directory a finalization for c works in: the one the environment
\* names, or a new one of mkdtemp.
TempDir(p, c) == IF tempDirEnv THEN Shared ELSE c

\* HSAILProgram::dumpBRIGS: the modules ms are written.
dumpBRIGS(p, d, c, ms) ==
  /\ files' = files \cup Brigs(d, c, ms)
  /\ prog' = [prog EXCEPT ![p].TempFiles = @ \cup Brigs(d, c, ms)]

\* GCCFinalizer::finalizeProgram up to the command: a program without modules
\* is refused, the directory made and the BRIGs written.  When a file cannot
\* be opened the finalization fails and leaves what it wrote.
StartFinalize(p, c) ==
  /\ phase = "up"
  /\ prog[p].state = "live" /\ ~Busy(p)
  /\ code[c].state = "none"
  /\ prog[p].BRIGs # {}
  /\ LET d == TempDir(p, c) IN
       /\ dirs' = dirs \cup {d}
       /\ \E ms \in SUBSET prog[p].BRIGs :
            /\ dumpBRIGS(p, d, c, ms)
            /\ code' = [code EXCEPT
                          ![c].state = IF ms = prog[p].BRIGs
                                       THEN "making" ELSE "failed",
                          ![c].by = p,
                          ![c].dir = d]
  /\ UNCHANGED <<setting, blobs, exe, phase>>

\* The command reads every BRIG of the program.
InputsThere(c) ==
  Brigs(code[c].dir, c, prog[code[c].by].BRIGs) \subseteq files

\* The command fails, and must when an input is missing: nothing is removed.
FailFinalize(c) ==
  /\ Making(c)
  /\ code' = [code EXCEPT ![c].state = "failed"]
  /\ UNCHANGED <<setting, prog, dirs, files, blobs, exe, phase>>

\* The command writes the binary, which is read into memory.
FinishFinalize(c) ==
  /\ Making(c)
  /\ InputsThere(c)
  /\ files' = files \cup {BinaryFile(c)}
  /\ code' = [code EXCEPT ![c].state = "live",
                          ![c].elf = prog[code[c].by].BRIGs]
  /\ UNCHANGED <<setting, prog, dirs, blobs, exe, phase>>

\* boost::filesystem::remove_all of the directory d
RemoveAll(d) ==
  /\ dirs' = dirs \ {d}
  /\ files' = {f \in files : f.dir # d}

\* DLFinalizedProgram::~DLFinalizedProgram closes the image and removes the
\* directory the binary is in.
DeleteCode(c) ==
  /\ code' = [code EXCEPT ![c].state = "dead", ![c].dl = FALSE]
  /\ IF debug THEN UNCHANGED <<dirs, files>> ELSE RemoveAll(code[c].dir)

\* The command succeeds, but loadAndCheckControlDirectives refuses a
\* directive: the finalized program is deleted with its directory (in debug
\* mode the binary is left).
MismatchFinalize(c) ==
  /\ Making(c)
  /\ InputsThere(c)
  /\ code' = [code EXCEPT ![c].state = "dead"]
  /\ IF debug
       THEN files' = files \cup {BinaryFile(c)} /\ UNCHANGED dirs
       ELSE RemoveAll(code[c].dir)
  /\ UNCHANGED <<setting, prog, blobs, exe, phase>>

-----------------------------------------------------------------------------
(* Code objects.                                                           *)

\* hsa_code_object_serialize: the image in memory, into the client's buffer.
Serialize(c) ==
  /\ phase = "up"
  /\ code[c].state = "live"
  /\ blobs' = blobs \cup {code[c].elf}
  /\ UNCHANGED <<setting, prog, dirs, files, code, exe, phase>>

\* Where DLFinalizedProgram::deserialize puts the binary: always a new
\* directory.
DeserializeDir(c) == c

\* hsa_code_object_deserialize
Deserialize(c, elf) ==
  /\ phase = "up"
  /\ code[c].state = "none"
  /\ LET d == DeserializeDir(c) IN
       /\ dirs' = dirs \cup {d}
       /\ files' = files \cup {File(d, c, Binary)}
       /\ code' = [code EXCEPT ![c].state = "live", ![c].dir = d, ![c].elf = elf]
  /\ UNCHANGED <<setting, prog, blobs, exe, phase>>

\* Whether a symbol of a live executable belongs to c
InUse(c) == \E e \in Exes : LiveExe(e) /\ \E s \in exe[e].symbols : s.code = c

\* hsa_code_object_destroy
DestroyCode(c) ==
  /\ phase = "up"
  /\ code[c].state = "live"
  /\ ~InUse(c)
  /\ DeleteCode(c)
  /\ UNCHANGED <<setting, prog, blobs, exe, phase>>

-----------------------------------------------------------------------------
(* Executables.                                                            *)

\* hsa_executable_create: in either state.
CreateExecutable(e) ==
  /\ phase = "up"
  /\ exe[e].state = "none"
  /\ \E s \in {"unfrozen", "frozen"} : exe' = [exe EXCEPT ![e].state = s]
  /\ UNCHANGED <<setting, prog, dirs, files, code, blobs, phase>>

\* hsa_executable_destroy
DestroyExecutable(e) ==
  /\ phase = "up"
  /\ LiveExe(e)
  /\ exe' = [exe EXCEPT ![e] = [NoExe EXCEPT !.state = "dead"]]
  /\ UNCHANGED <<setting, prog, dirs, files, code, blobs, phase>>

\* DLFinalizedProgram::dlhandle: the image is open, or the file is there and
\* dlopen() maps it.
dlhandle(c) == code[c].dl \/ BinaryFile(c) \in files

\* Faulty variant: the definitions do not open the image themselves.
defineWithoutOpening(c, defs) ==
  [n \in Names |-> IF code[c].dl /\ defs[n] # NULL
                   THEN defs[n] ELSE code[c].hostDef[n]]

\* DLFinalizedProgram::defineGlobalSymbolAddress for every definition of the
\* executable: written when there is an image to write to.
defineGlobalSymbolAddress(c, defs) ==
  [n \in Names |-> IF dlhandle(c) /\ defs[n] # NULL
                   THEN defs[n] ELSE code[c].hostDef[n]]

\* hsa_executable_load_code_object and ELFExecutable::LoadCodeObject.  An
\* image that cannot be opened gives its symbols the address 0, and the load
\* succeeds all the same.
LoadCodeObject(e, c) ==
  /\ phase = "up"
  /\ exe[e].state = "unfrozen"
  /\ code[c].state = "live"
  /\ LET S == {Symbol(c, m, dlhandle(c)) : m \in code[c].elf} IN
       exe' = [exe EXCEPT
                 ![e].symbols = @ \cup S,
                 ![e].byName = [m \in Modules |->
                    IF m \in code[c].elf THEN Symbol(c, m, dlhandle(c)) ELSE @[m]]]
  /\ code' = [code EXCEPT
                ![c].hostDef = defineGlobalSymbolAddress(c, exe[e].DefinedSymbols),
                ![c].dl = dlhandle(c),
                ![c].users = @ \cup {e}]
  /\ UNCHANGED <<setting, prog, dirs, files, blobs, phase>>

\* hsa_executable_freeze: only once.
Freeze(e) ==
  /\ phase = "up"
  /\ exe[e].state = "unfrozen"
  /\ exe' = [exe EXCEPT ![e].state = "frozen"]
  /\ UNCHANGED <<setting, prog, dirs, files, code, blobs, phase>>

\* hsa_executable_global_variable_define and its two variants: noted for later
\* loads, whether the executable is frozen or not.
DefineVariable(e, n, a) ==
  /\ phase = "up"
  /\ LiveExe(e)
  /\ exe' = [exe EXCEPT ![e].DefinedSymbols[n] = a,
                        ![e].late = @ \/ exe[e].symbols # {}]
  /\ UNCHANGED <<setting, prog, dirs, files, code, blobs, phase>>

-----------------------------------------------------------------------------
(* The last hsa_shut_down.  Runtime::~Runtime deletes the code objects that *)
(* are left, then the programs; executables stay.                           *)

ShutDown ==
  /\ phase = "up"
  /\ \A c \in Codes : ~Making(c)
  /\ phase' = "collect"
  /\ UNCHANGED <<setting, prog, dirs, files, code, blobs, exe>>

CollectCode(c) ==
  /\ phase = "collect"
  /\ code[c].state = "live"
  /\ DeleteCode(c)
  /\ UNCHANGED <<setting, prog, blobs, exe, phase>>

CollectProgram(p) ==
  /\ phase = "collect"
  /\ \A c \in Codes : code[c].state # "live"
  /\ prog[p].state = "live"
  /\ DeleteProgram(p)
  /\ UNCHANGED <<setting, dirs, code, blobs, exe, phase>>

Collected ==
  /\ phase = "collect"
  /\ \A c \in Codes : code[c].state # "live"
  /\ \A p \in Progs : prog[p].state # "live"
  /\ phase' = "off"
  /\ UNCHANGED <<setting, prog, dirs, files, code, blobs, exe>>

Next ==
  \/ \E p \in Progs :
       \/ CreateProgram(p) \/ DestroyProgram(p) \/ CollectProgram(p)
       \/ \E m \in Modules : AddModule(p, m)
       \/ \E c \in Codes : StartFinalize(p, c)
  \/ \E c \in Codes :
       \/ FailFinalize(c) \/ FinishFinalize(c) \/ MismatchFinalize(c)
       \/ Serialize(c) \/ DestroyCode(c) \/ CollectCode(c)
       \/ \E elf \in blobs : Deserialize(c, elf)
  \/ \E e \in Exes :
       \/ CreateExecutable(e) \/ DestroyExecutable(e) \/ Freeze(e)
       \/ \E c \in Codes : LoadCodeObject(e, c)
       \/ \E n \in Names, a \in Addrs : DefineVariable(e, n, a)
  \/ ShutDown \/ Collected
  \/ phase = "off" /\ UNCHANGED vars

Spec == Init /\ [][Next]_vars

-----------------------------------------------------------------------------
(* Properties.                                                             *)

\* Unless all finalizations share a directory, every symbol that an executable
\* gives out while the runtime is up has an address in an image that is still
\* mapped: no program or code object that was destroyed, and no finalization
\* that failed, took away the file that LoadCodeObject opens so late.
SymbolsCallable ==
  phase = "up" /\ ~tempDirEnv =>
    \A e \in Exes : LiveExe(e) =>
      \A s \in exe[e].symbols :
        s.found /\ code[s.code].state = "live" /\ code[s.code].dl

\* Unless all finalizations share a directory, the command of finalizeProgram
\* finds the BRIGs that dumpBRIGS wrote for it, whatever the other threads
\* destroy between the two.
InputsKept ==
  ~tempDirEnv => \A c \in Codes : Making(c) => InputsThere(c)

\* Out of debug mode nothing that was compiled or written outlives the
\* runtime: the destructors of programs and code objects, in the order of
\* ~Runtime, have removed every file, those of failed finalizations too.  Only
\* the directories of failed finalizations, which no object owns, are left.
NoFileLeft ==
  phase = "off" /\ ~debug =>
    /\ files = {}
    /\ \A d \in dirs : \E c \in Codes : code[c].state = "failed" /\ code[c].dir = d

\* What the host defined before it loaded anything is what the kernels see:
\* the mapped image of a code object that one executable has loaded agrees
\* with the definitions of that executable.
DefinitionsSeen ==
  \A e \in Exes, c \in Codes :
    LiveExe(e) /\ ~exe[e].late /\ code[c].users = {e} /\ code[c].dl =>
      code[c].hostDef = exe[e].DefinedSymbols

=============================================================================
