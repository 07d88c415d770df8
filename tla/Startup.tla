------------------------------ MODULE Startup ------------------------------
(***************************************************************************)
(* The start of the daemon up to the point where phones can reach it       *)
(* (main.rs): the configuration (config.rs), the TLS certificate that      *)
(* phones pin (tls.rs) and the identity with the device id they know       *)
(* (identity/mod.rs).  Each loads its files or writes new ones, and the    *)
(* process may be killed, or fail, between any two of these steps; systemd *)
(* starts it again.                                                        *)
(*                                                                         *)
(* fs::write opens, which empties the file, and then writes these few      *)
(* hundred bytes at once: a file is absent, empty or whole.  A power       *)
(* failure, which could lose writes that have returned, is left out.       *)
(***************************************************************************)
EXTENDS Naturals, Sequences

CONSTANTS MaxCrashes    \* bound: times that the process is killed

ASSUME StartupAssumption == MaxCrashes \in Nat

Files == {"config", "cert", "key", "idcert", "idkey", "idconf"}

VARIABLES
  exists,    \* the files that exist
  disk,      \* what is in them: 0, nothing; n, what was generated n-th
  step,      \* what main does next; "down" without a process
  todo,      \* the files that are still to be written before that
  open,      \* the first of them is open, and empty
  made,      \* number of times that something new was generated
  fp,        \* the TLS fingerprint of the process
  id,        \* its device id
  seen,      \* history: what phones were shown, [fp, id]
  crashes

vars == <<exists, disk, step, todo, open, made, fp, id, seen, crashes>>

Steps == {"down", "config", "tls", "identity", "open", "running"}

Init ==
  /\ exists = {} /\ disk = [f \in Files |-> 0]
  /\ step = "down" /\ todo = <<>> /\ open = FALSE
  /\ made = 0 /\ fp = 0 /\ id = 0
  /\ seen = {} /\ crashes = 0

\* systemd: Restart=on-failure; or the user's next session.
Start ==
  /\ step = "down"
  /\ step' = "config"
  /\ UNCHANGED <<exists, disk, todo, open, made, fp, id, seen, crashes>>

----------------------------------------------------------------------------
Writing(files) == todo' = files /\ UNCHANGED <<exists, disk, open>>

OpenFile ==
  /\ todo # <<>> /\ ~open
  /\ exists' = exists \cup {Head(todo)}
  /\ disk' = [disk EXCEPT ![Head(todo)] = 0]
  /\ open' = TRUE
  /\ UNCHANGED <<step, todo, made, fp, id, seen, crashes>>

WriteFile ==
  /\ open
  /\ disk' = [disk EXCEPT ![Head(todo)] = made]
  /\ todo' = Tail(todo) /\ open' = FALSE
  /\ UNCHANGED <<exists, step, made, fp, id, seen, crashes>>

At(s) == step = s /\ todo = <<>>

\* load_config: an empty file does not parse, and main ends.
LoadConfig ==
  /\ At("config")
  /\ IF "config" \notin exists
       THEN Writing(<<"config">>) /\ made' = made + 1 /\ step' = "tls"
       ELSE /\ step' = IF disk["config"] = 0 THEN "down" ELSE "tls"
            /\ UNCHANGED <<exists, disk, todo, open, made>>
  /\ UNCHANGED <<fp, id, seen, crashes>>

\* try_load: both files parse, and rustls finds that they belong together.
TlsLoads == disk["cert"] # 0 /\ disk["key"] = disk["cert"]

\* (Mutants: main ends where the files are no good; new ones are not saved.)
LoadTlsOrEnd ==
  /\ At("tls")
  /\ \/ TlsLoads /\ fp' = disk["cert"] /\ step' = "identity"
        /\ UNCHANGED <<exists, disk, todo, open, made>>
     \/ ~TlsLoads /\ "cert" \notin exists /\ fp' = made + 1
        /\ step' = "identity" /\ made' = made + 1 /\ Writing(<<"cert", "key">>)
     \/ ~TlsLoads /\ "cert" \in exists /\ step' = "down"
        /\ UNCHANGED <<exists, disk, todo, open, made, fp>>
  /\ UNCHANGED <<id, seen, crashes>>

LoadTlsUnsaved ==
  /\ At("tls")
  /\ step' = "identity"
  /\ IF TlsLoads THEN fp' = disk["cert"] /\ UNCHANGED made
                 ELSE made' = made + 1 /\ fp' = made + 1
  /\ UNCHANGED <<exists, disk, todo, open, id, seen, crashes>>

\* tls::load_or_generate
LoadTls ==
  /\ At("tls")
  /\ step' = "identity"
  /\ IF TlsLoads
       THEN fp' = disk["cert"] /\ UNCHANGED <<exists, disk, todo, open, made>>
       ELSE made' = made + 1 /\ fp' = made + 1 /\ Writing(<<"cert", "key">>)
  /\ UNCHANGED <<id, seen, crashes>>

IdentityExists == {"idcert", "idkey"} \subseteq exists

\* (Mutant: key first.)
LoadIdentityKeyFirst ==
  /\ At("identity")
  /\ IF IdentityExists
       THEN id' = disk["idconf"] /\ UNCHANGED <<exists, disk, todo, open, made>>
       ELSE /\ made' = made + 1 /\ id' = made + 1
            /\ Writing(<<"idkey", "idcert", "idconf">>)
  /\ step' = "open"
  /\ UNCHANGED <<fp, seen, crashes>>

\* Identity::load_or_create.  A certificate that does not parse, or is none,
\* ends main.  An empty config.toml has no id and is not written again.
LoadIdentity ==
  /\ At("identity")
  /\ \/ /\ ~IdentityExists
        /\ made' = made + 1 /\ id' = made + 1
        /\ Writing(<<"idcert", "idkey", "idconf">>)
        /\ step' = "open"
     \/ /\ IdentityExists /\ disk["idcert"] = 0
        /\ step' = "down"
        /\ UNCHANGED <<exists, disk, todo, open, made, id>>
     \/ /\ IdentityExists /\ disk["idcert"] # 0 /\ disk["idconf"] # 0
        /\ id' = disk["idconf"]
        /\ step' = "open"
        /\ UNCHANGED <<exists, disk, todo, open, made>>
     \/ /\ IdentityExists /\ disk["idcert"] # 0 /\ disk["idconf"] = 0
        /\ made' = made + 1 /\ id' = made + 1
        /\ Writing(IF "idconf" \in exists THEN <<>> ELSE <<"idconf">>)
        /\ step' = "open"
  /\ UNCHANGED <<fp, seen, crashes>>

\* The server listens: its TLS certificate and its Hello show both.
Serve ==
  /\ At("open")
  /\ step' = "running"
  /\ seen' = seen \cup {[fp |-> fp, id |-> id]}
  /\ UNCHANGED <<exists, disk, todo, open, made, fp, id, crashes>>

\* The process is killed, a write fails, or the session ends.
Crash ==
  /\ step # "down" /\ crashes < MaxCrashes
  /\ step' = "down" /\ todo' = <<>> /\ open' = FALSE
  /\ fp' = 0 /\ id' = 0
  /\ crashes' = crashes + 1
  /\ UNCHANGED <<exists, disk, made, seen>>

----------------------------------------------------------------------------
Proceed == \/ Start \/ OpenFile \/ WriteFile
           \/ LoadConfig \/ LoadTls \/ LoadIdentity \/ Serve

Next == Proceed \/ Crash

Spec     == Init /\ [][Next]_vars
FairSpec == Spec /\ WF_vars(Proceed)

----------------------------------------------------------------------------
TypeOK ==
  /\ exists \subseteq Files
  /\ disk \in [Files -> Nat]
  /\ step \in Steps
  /\ todo \in Seq(Files) /\ (step \in {"down", "running"} => todo = <<>>)
  /\ open \in BOOLEAN /\ (open => todo # <<>>)
  /\ made \in Nat /\ fp \in Nat /\ id \in Nat
  /\ seen \subseteq [fp : Nat, id : Nat]
  /\ crashes \in 0..MaxCrashes

\* A kill in the write of the identity's key leaves it empty.  load_or_create
\* asks only that it exists, and so every later start keeps it; the server that
\* takes it for "valid" is that of the first phase, which is not started.
KeyLost == IdentityExists /\ disk["idkey"] = 0

\* However often the process was killed, and wherever, a certificate and a key
\* of different generations never lie next to each other, neither the TLS pair
\* that phones pin nor the identity's, and no identity that exists has a
\* certificate that would end every start.  What a kill can spoil for good is
\* the identity's key (KeyLost) and the configuration (EmptyConfig, below).
PairsUsable ==
  /\ disk["key"] # 0 => disk["key"] = disk["cert"]
  /\ IdentityExists => /\ disk["idcert"] # 0
                       /\ KeyLost \/ disk["idkey"] = disk["idcert"]

\* Phones that have met the daemon meet the same one again: all starts that got
\* as far as serving show the fingerprint that was pinned, and the same device
\* id, unless a crash left an empty config.toml of the identity: then every
\* start makes up another.
SameDaemon ==
  \A a, b \in seen :
    /\ a.fp = b.fp
    /\ a.id # b.id => "idconf" \in exists /\ disk["idconf"] = 0

\* A daemon that is killed only so often serves in the end, unless a crash
\* left an empty configuration: then no start gets past load_config.
EmptyConfig == "config" \in exists /\ disk["config"] = 0
ServesInTheEnd == <>[](step = "running" \/ EmptyConfig)
=============================================================================
