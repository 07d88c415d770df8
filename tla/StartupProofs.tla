--------------------------- MODULE StartupProofs ---------------------------
(***************************************************************************)
(* Proofs about Startup, for any number of crashes.                        *)
(*                                                                         *)
(* The inductive invariant says what is true in the middle of a write:     *)
(* which files may be on the list, that nothing is written to the TLS pair *)
(* or to the identity once phones have seen them, and what the files that  *)
(* were written before hold by then.                                       *)
(***************************************************************************)
EXTENDS Startup, SequenceTheorems, TLAPS

TlsWrites == {<<"cert", "key">>, <<"key">>}
IdWrites  == {<<"idcert", "idkey", "idconf">>, <<"idkey", "idconf">>, <<"idconf">>}

FilesInv ==
  /\ \A f \in Files : f \notin exists => disk[f] = 0
  /\ open => Head(todo) \in exists
  /\ \/ todo = <<>>
     \/ todo = <<"config">> /\ step = "tls"
     \/ todo \in TlsWrites /\ step = "identity"
     \/ todo \in IdWrites /\ step = "open"

TlsInv ==
  /\ disk["key"] # 0 => disk["cert"] = disk["key"]
  /\ todo \in TlsWrites => disk["key"] = 0 /\ seen = {} /\ fp = made /\ made # 0
  /\ todo = <<"key">> => disk["cert"] = made
  /\ step \in {"identity", "open", "running"} /\ todo \notin TlsWrites =>
       TlsLoads /\ fp = disk["cert"]
  /\ \A s \in seen : TlsLoads /\ s.fp = disk["cert"]

IdInv ==
  /\ "idkey" \in exists => disk["idcert"] # 0
  /\ disk["idkey"] # 0 => disk["idkey"] = disk["idcert"]
  /\ todo \in IdWrites => seen = {} /\ id = made /\ made # 0
  /\ todo = <<"idcert", "idkey", "idconf">> => "idkey" \notin exists
  /\ todo \in {<<"idkey", "idconf">>, <<"idconf">>} => disk["idcert"] # 0
  /\ todo = <<"idkey", "idconf">> => disk["idcert"] = made
  /\ todo = <<"idconf">> => "idkey" \in exists
  /\ step \in {"open", "running"} /\ todo = <<>> =>
       /\ IdentityExists /\ "idconf" \in exists
       /\ disk["idconf"] = 0 \/ id = disk["idconf"]
  /\ \A s \in seen : /\ IdentityExists /\ "idconf" \in exists
                     /\ disk["idconf"] = 0 \/ s.id = disk["idconf"]

Inv == TypeOK /\ FilesInv /\ TlsInv /\ IdInv

----------------------------------------------------------------------------
\* What is left of each list of files, and which file is opened next.
LEMMA Lists ==
  /\ Head(<<"config">>) = "config" /\ Tail(<<"config">>) = <<>>
  /\ Head(<<"cert", "key">>) = "cert" /\ Tail(<<"cert", "key">>) = <<"key">>
  /\ Head(<<"key">>) = "key" /\ Tail(<<"key">>) = <<>>
  /\ Head(<<"idcert", "idkey", "idconf">>) = "idcert"
  /\ Tail(<<"idcert", "idkey", "idconf">>) = <<"idkey", "idconf">>
  /\ Head(<<"idkey", "idconf">>) = "idkey"
  /\ Tail(<<"idkey", "idconf">>) = <<"idconf">>
  /\ Head(<<"idconf">>) = "idconf" /\ Tail(<<"idconf">>) = <<>>
  OBVIOUS

\* Every suffix of a list of files is such a list again.
LEMMA ListsTyped ==
  /\ <<>> \in Seq(Files) /\ <<"config">> \in Seq(Files)
  /\ TlsWrites \cup IdWrites \subseteq Seq(Files)
<1>1. <<>> \in Seq(Files)
  BY EmptySeq
<1>2. <<"config">> \in Seq(Files)
  BY DEF Files
<1>3. TlsWrites \cup IdWrites \subseteq Seq(Files)
  BY DEF Files, TlsWrites, IdWrites
<1> QED
  BY <1>1, <1>2, <1>3

\* The lists differ from each other.
LEMMA ListsDiffer ==
  /\ <<>> \notin TlsWrites /\ <<>> \notin IdWrites
  /\ <<"config">> \notin TlsWrites /\ <<"config">> \notin IdWrites
  /\ TlsWrites \cap IdWrites = {}
  /\ <<"config">> # <<>> /\ <<"key">> # <<"cert", "key">>
  /\ <<"idconf">> # <<"idkey", "idconf">>
  /\ <<"idcert", "idkey", "idconf">> \notin {<<"idkey", "idconf">>, <<"idconf">>}
  BY DEF TlsWrites, IdWrites

\* Before the first start no file exists.
LEMMA InvInit == Init => Inv
<1> SUFFICES ASSUME Init PROVE Inv
  OBVIOUS
<1>1. todo \notin TlsWrites /\ todo \notin IdWrites
  BY ListsDiffer DEF Init
<1>2. TypeOK
  <2>1. todo \in Seq(Files) /\ open \in BOOLEAN /\ ~open
    BY ListsTyped DEF Init
  <2>2. exists \subseteq Files /\ disk \in [Files -> Nat] /\ step \in Steps
    BY DEF Init, Steps
  <2>3. made \in Nat /\ fp \in Nat /\ id \in Nat /\ crashes \in 0..MaxCrashes
    BY StartupAssumption DEF Init
  <2> QED
    BY <2>1, <2>2, <2>3 DEF Init, TypeOK
<1>3. FilesInv
  BY DEF Init, FilesInv, Files
<1>4. TlsInv
  BY <1>1 DEF Init, TlsInv, TlsWrites, Files
<1>5. IdInv
  BY <1>1 DEF Init, IdInv, IdWrites, Files
<1> QED
  BY <1>2, <1>3, <1>4, <1>5 DEF Inv

\* Whatever is on the list is a file.
LEMMA NextFile ==
  ASSUME TypeOK, todo # <<>>
  PROVE  Head(todo) \in Files /\ Tail(todo) \in Seq(Files)
  BY HeadTailProperties DEF TypeOK

\* One step per file that may be opened.
LEMMA OpenFileKeeps == ASSUME Inv, OpenFile PROVE Inv'
<1> USE DEF OpenFile
<1>0. TypeOK'
  BY NextFile DEF Inv, TypeOK
<1>1. CASE todo = <<"config">>
  BY <1>0, <1>1, Lists, ListsDiffer DEF Inv, TypeOK, FilesInv, TlsInv, IdInv, TlsLoads, IdentityExists, Files
<1>2. CASE todo = <<"cert", "key">>
  BY <1>0, <1>2, Lists, ListsDiffer DEF Inv, TypeOK, FilesInv, TlsInv, IdInv, TlsLoads, IdentityExists, Files, TlsWrites
<1>3. CASE todo = <<"key">>
  BY <1>0, <1>3, Lists, ListsDiffer DEF Inv, TypeOK, FilesInv, TlsInv, IdInv, TlsLoads, IdentityExists, Files, TlsWrites
<1>4. CASE todo \in IdWrites
  <2>1. CASE todo = <<"idcert", "idkey", "idconf">>
    BY <1>0, <1>4, <2>1, Lists, ListsDiffer DEF Inv, TypeOK, FilesInv, TlsInv, IdInv, TlsLoads, IdentityExists, Files
  <2>2. CASE todo = <<"idkey", "idconf">>
    BY <1>0, <1>4, <2>2, Lists, ListsDiffer DEF Inv, TypeOK, FilesInv, TlsInv, IdInv, TlsLoads, IdentityExists, Files
  <2>3. CASE todo = <<"idconf">>
    BY <1>0, <1>4, <2>3, Lists, ListsDiffer DEF Inv, TypeOK, FilesInv, TlsInv, IdInv, TlsLoads, IdentityExists, Files
  <2> QED
    BY <1>4, <2>1, <2>2, <2>3 DEF IdWrites
<1> QED
  BY <1>1, <1>2, <1>3, <1>4 DEF Inv, FilesInv, TlsWrites

\* One step per file that may be completed.
LEMMA WriteFileKeeps == ASSUME Inv, WriteFile PROVE Inv'
<1> USE DEF WriteFile
<1>0. TypeOK'
  BY NextFile DEF Inv, TypeOK
<1>1. CASE todo = <<"config">>
  BY <1>0, <1>1, Lists, ListsDiffer DEF Inv, TypeOK, FilesInv, TlsInv, IdInv, TlsLoads, IdentityExists, Files
<1>2. CASE todo = <<"cert", "key">>
  BY <1>0, <1>2, Lists, ListsDiffer DEF Inv, TypeOK, FilesInv, TlsInv, IdInv, TlsLoads, IdentityExists, Files, TlsWrites
<1>3. CASE todo = <<"key">>
  BY <1>0, <1>3, Lists, ListsDiffer DEF Inv, TypeOK, FilesInv, TlsInv, IdInv, TlsLoads, IdentityExists, Files, TlsWrites
<1>4. CASE todo \in IdWrites
  <2>1. CASE todo = <<"idcert", "idkey", "idconf">>
    BY <1>0, <1>4, <2>1, Lists, ListsDiffer DEF Inv, TypeOK, FilesInv, TlsInv, IdInv, TlsLoads, IdentityExists, Files, IdWrites
  <2>2. CASE todo = <<"idkey", "idconf">>
    BY <1>0, <1>4, <2>2, Lists, ListsDiffer DEF Inv, TypeOK, FilesInv, TlsInv, IdInv, TlsLoads, IdentityExists, Files, IdWrites
  <2>3. CASE todo = <<"idconf">>
    BY <1>0, <1>4, <2>3, Lists, ListsDiffer DEF Inv, TypeOK, FilesInv, TlsInv, IdInv, TlsLoads, IdentityExists, Files
  <2> QED
    BY <1>4, <2>1, <2>2, <2>3 DEF IdWrites
<1>5. todo # <<>>
  BY DEF Inv, TypeOK
<1> QED
  BY <1>1, <1>2, <1>3, <1>4, <1>5 DEF Inv, FilesInv, TlsWrites

\* The steps of main.
LEMMA LoadConfigKeeps == ASSUME Inv, LoadConfig PROVE Inv'
<1> USE DEF LoadConfig, At, Writing
<1>0. /\ exists' = exists /\ disk' = disk /\ open' = open /\ made' \in Nat
      /\ todo' \in {<<>>, <<"config">>} /\ step' \in {"down", "tls"}
      /\ step' = "down" => todo' = <<>>
  BY DEF Inv, TypeOK
<1>1. TypeOK'
  <2>1. ~open
    BY DEF Inv, TypeOK
  <2>2. todo' \in Seq(Files)
    BY <1>0, ListsTyped
  <2> QED
    BY <1>0, <2>1, <2>2 DEF Inv, TypeOK, Steps
<1>2. CASE "config" \notin exists
  BY <1>1, <1>2, ListsDiffer DEF Inv, TypeOK, FilesInv, TlsInv, IdInv, TlsLoads, IdentityExists, Files
<1>3. CASE "config" \in exists
  BY <1>1, <1>3, ListsDiffer DEF Inv, TypeOK, FilesInv, TlsInv, IdInv, TlsLoads, IdentityExists, Files
<1> QED
  BY <1>2, <1>3

\* load_or_generate: the pair found, or a new one.
LEMMA LoadTlsKeeps == ASSUME Inv, LoadTls PROVE Inv'
<1> USE DEF LoadTls, At, Writing
<1>1. CASE TlsLoads
  <2>1. TypeOK'
    BY <1>1 DEF Inv, TypeOK, Steps, Files
  <2> QED
    BY <1>1, <2>1, ListsDiffer DEF Inv, TypeOK, FilesInv, TlsInv, IdInv, TlsLoads, IdentityExists, Files
<1>2. CASE ~TlsLoads
  <2>1. TypeOK'
    BY <1>2, ListsTyped DEF Inv, TypeOK, Steps, TlsWrites
  <2>2. todo' \in TlsWrites /\ todo' = <<"cert", "key">>
    BY <1>2 DEF TlsWrites
  <2> QED
    BY <1>2, <2>1, <2>2, ListsDiffer DEF Inv, TypeOK, FilesInv, TlsInv, IdInv, TlsLoads, IdentityExists, Files
<1> QED
  BY <1>1, <1>2

\* load_or_create: the pair of the identity, found or new.
LEMMA LoadIdentityKeeps == ASSUME Inv, LoadIdentity PROVE Inv'
<1> USE DEF LoadIdentity, At, Writing
<1>1. CASE ~IdentityExists
  <2>1. TypeOK'
    BY <1>1, ListsTyped DEF Inv, TypeOK, Steps, IdWrites
  <2>2. todo' \in IdWrites /\ todo' = <<"idcert", "idkey", "idconf">>
    BY <1>1 DEF IdWrites
  <2> QED
    BY <1>1, <2>1, <2>2, ListsDiffer DEF Inv, TypeOK, FilesInv, TlsInv, IdInv, TlsLoads, IdentityExists, Files
<1>2. CASE IdentityExists /\ disk["idconf"] # 0
  <2>0. /\ disk["idcert"] # 0 /\ disk["idconf"] \in Nat
    BY <1>2 DEF Inv, IdInv, IdentityExists, TypeOK, Files
  <2>1. TypeOK'
    <3>1. /\ exists' = exists /\ disk' = disk /\ open' = open /\ made' = made
          /\ todo' = todo /\ step' = "open" /\ id' \in Nat
      BY <1>2, <2>0
    <3> QED
      BY <3>1 DEF Inv, TypeOK, Steps
  <2> QED
    BY <1>2, <2>0, <2>1, ListsDiffer DEF Inv, TypeOK, FilesInv, TlsInv, IdInv, TlsLoads, IdentityExists, Files
<1>3. CASE IdentityExists /\ disk["idconf"] = 0
  <2>0. disk["idcert"] # 0
    BY <1>3 DEF Inv, IdInv, IdentityExists
  <2>1. CASE "idconf" \in exists
    <3>1. TypeOK'
      <4>1. /\ exists' = exists /\ disk' = disk /\ open' = open
            /\ made' = made + 1 /\ id' = made + 1
            /\ todo' = todo /\ step' = "open"
        BY <1>3, <2>0, <2>1
      <4> QED
        BY <4>1 DEF Inv, TypeOK, Steps
    <3> QED
      BY <1>3, <2>0, <2>1, <3>1, ListsDiffer DEF Inv, TypeOK, FilesInv, TlsInv, IdInv, TlsLoads, IdentityExists, Files
  <2>2. CASE "idconf" \notin exists
    <3>1. TypeOK'
      BY <1>3, <2>0, <2>2, ListsTyped DEF Inv, TypeOK, Steps, IdWrites
    <3>2. todo' \in IdWrites /\ todo' = <<"idconf">>
      BY <1>3, <2>0, <2>2 DEF IdWrites
    <3> QED
      BY <1>3, <2>0, <2>2, <3>1, <3>2, ListsDiffer DEF Inv, TypeOK, FilesInv, TlsInv, IdInv, TlsLoads, IdentityExists, Files
  <2> QED
    BY <2>1, <2>2
<1> QED
  BY <1>1, <1>2, <1>3

\* Serving remembers the fingerprint and the id.
LEMMA ServeKeeps == ASSUME Inv, Serve PROVE Inv'
<1> USE DEF Serve, At
<1>1. TypeOK'
  BY DEF Inv, TypeOK, Steps
<1> QED
  BY <1>1, ListsDiffer DEF Inv, TypeOK, FilesInv, TlsInv, IdInv, TlsLoads, IdentityExists, Files

\* A start begins with empty memory and touches no file.
LEMMA StartKeeps == ASSUME Inv, Start PROVE Inv'
  BY ListsDiffer DEF Start, Inv, TypeOK, FilesInv, TlsInv, IdInv, TlsLoads, IdentityExists, Files, Steps

\* A kill keeps what is on disk.
LEMMA CrashKeeps == ASSUME Inv, Crash PROVE Inv'
<1>1. TypeOK'
  <2>1. crashes' \in 0..MaxCrashes
    BY StartupAssumption DEF Crash, Inv, TypeOK
  <2>2. todo' \in Seq(Files) /\ todo' = <<>>
    BY ListsTyped DEF Crash
  <2>3. /\ exists' = exists /\ disk' = disk /\ made' = made /\ seen' = seen
        /\ step' \in Steps /\ fp' \in Nat /\ id' \in Nat
    BY DEF Crash, Steps
  <2>4. open' \in BOOLEAN /\ ~open'
    BY DEF Crash
  <2> QED
    BY <2>1, <2>2, <2>3, <2>4 DEF Inv, TypeOK
<1> QED
  BY <1>1, ListsDiffer DEF Crash, Inv, TypeOK, FilesInv, TlsInv, IdInv, TlsLoads, IdentityExists, Files

\* The invariant is inductive.
LEMMA InvStep == Inv /\ [Next]_vars => Inv'
<1> SUFFICES ASSUME Inv, [Next]_vars PROVE Inv'
  OBVIOUS
<1>1. CASE Crash
  BY <1>1, CrashKeeps
<1>2. CASE Proceed
  BY <1>2, OpenFileKeeps, WriteFileKeeps, LoadConfigKeeps, LoadTlsKeeps,
     LoadIdentityKeeps, ServeKeeps, StartKeeps DEF Proceed
<1>3. CASE UNCHANGED vars
  BY <1>3 DEF vars, Inv, TypeOK, FilesInv, TlsInv, IdInv, TlsLoads, IdentityExists
<1> QED
  BY <1>1, <1>2, <1>3 DEF Next

----------------------------------------------------------------------------
\* The invariant holds, however often the process is killed.
THEOREM Invariant == Spec => []Inv
  BY InvInit, InvStep, PTL DEF Spec

\* The variables of the start keep their types (main.rs, fs::write).
THEOREM TypeCorrect == Spec => []TypeOK
<1>1. Inv => TypeOK
  BY DEF Inv
<1> QED
  BY <1>1, Invariant, PTL

\* No start meets a certificate and a key of different generations, or an
\* identity whose certificate it cannot load; an identity's key may be empty
\* (tls.rs, identity/mod.rs).
THEOREM Usable == Spec => []PairsUsable
<1>1. Inv => PairsUsable
  BY DEF Inv, TlsInv, IdInv, PairsUsable, IdentityExists, KeyLost
<1> QED
  BY <1>1, Invariant, PTL

\* Phones meet the daemon that they know: its fingerprint never changes, its
\* device id only when the file that holds it was left empty (tls.rs
\* load_or_generate, identity/mod.rs load_or_create).
THEOREM Known == Spec => []SameDaemon
<1>1. Inv => \A a, b \in seen : a.fp = b.fp
  BY DEF Inv, TlsInv
<1>2. Inv => \A a, b \in seen : a.id # b.id =>
                "idconf" \in exists /\ disk["idconf"] = 0
  BY DEF Inv, IdInv
<1>3. Inv => SameDaemon
  BY <1>1, <1>2 DEF SameDaemon
<1> QED
  BY <1>3, Invariant, PTL

============================================================================
