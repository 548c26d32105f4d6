---------------------------- MODULE ConfigFiles ----------------------------
(***************************************************************************)
(* The files under /etc/deputyos that `deputyctl` and the status page edit.*)
(* Every command is a process of its own: it reads the whole file, changes *)
(* its setting in the copy, writes the copy beside the file under a fixed  *)
(* temporary name and renames it into place.  Nothing is locked, so two    *)
(* commands on one file share the temporary name too.                      *)
(*                                                                         *)
(* A file is Missing, Empty (created or truncated, nothing written yet),   *)
(* Broken (two writes over each other) or a function from its settings to  *)
(* their values.  This module holds the files, what each reader makes of   *)
(* each state, and the change each command makes to its copy; Device runs  *)
(* the commands step by step.                                              *)
(***************************************************************************)
EXTENDS Integers, FiniteSets, FiniteSetsExt, TLC

CONSTANTS Providers,  \* providers of the catalogue, by id
          MountIds,   \* names of mounts
          Models,     \* ids of local models, one of them baked into the image
          Baked,
          Profiles,   \* installed agent profiles
          None, Missing, Empty, Broken

ASSUME BakedIsAModel == Baked \in Models

Files == {"cost", "secrets", "provider", "mounts", "network", "nft", "catalog",
          "voice", "active"}

Torn == {Missing, Empty, Broken}

(* What each file says when it says nothing: CostConfig::default, no keys, *)
(* no mounts, an open network, an empty catalogue.  Ports count from 1, the*)
(* 8090 of the baked model; 0 is no entry.                                 *)
DefaultCost   == [cap |-> "high", trip |-> "pause", quiet |-> "off"]
NoKeys        == [i \in Providers |-> None]
NoMounts      == [m \in {"host", "net"} \X MountIds |-> None]
OpenPolicy    == [mode |-> "open", hosts |-> None]
NoModels      == [m \in Models |-> 0]
DefaultVoice  == [wake |-> None, device |-> None, sections |-> None]

(* What a file holds when it is whole: a value for each of its settings.   *)
(* The sections of voice.toml are its headers with the keys that only the  *)
(* relay knows, the model paths and binaries.                              *)
Contents(f) ==
  CASE f = "cost"     -> [cap : {"low", "high"}, trip : {"pause", "warn"}, quiet : {"on", "off"}]
    [] f = "secrets"  -> [Providers -> {None, "old", "new"}]
    [] f = "provider" -> [id : Providers \union {None}]
    [] f = "mounts"   -> [{"host", "net"} \X MountIds -> {None, "ro"}]
    [] f \in {"network", "nft"} ->
         [mode : {"open", "whitelist", "airgap"}, hosts : {None, "seed", "host"}]
    [] f = "catalog"  -> [Models -> Nat]
    [] f = "voice"    -> [wake : {None, "word"}, device : {None, "usb"},
                          sections : {None, "kept"}]
    [] f = "active"   -> [id : Profiles \union {None}]

(* No reader takes a torn file for one of these.                           *)
ASSUME ContentIsWhole == \A f \in Files : \A t \in Torn : t \notin Contents(f)

ASSUME FewModels == IsFiniteSet(Models)

(* An image is flashed with a profile and a provider for it.               *)
ASSUME SomeToChoose == Providers # {} /\ Profiles # {}

-----------------------------------------------------------------------------
(* The readers.  Broken as a result is the reader's error.                 *)

load_config_from(c) == IF c \in {Missing, Empty} THEN DefaultCost ELSE c

(* Any failure to read is taken for a file without lines.                  *)
existing_secrets(c) == IF c \in Torn THEN NoKeys ELSE c

read_active_provider(c) == IF c \in Torn THEN None ELSE c["id"]

mounts_read(c) == IF c = Missing THEN NoMounts ELSE IF c = Empty THEN Broken ELSE c

network_read(c) == IF c = Missing THEN OpenPolicy ELSE IF c = Empty THEN Broken ELSE c

(* An unparsable catalogue is taken for an empty one.                      *)
read_catalog(c) == IF c \in Torn THEN NoModels ELSE c

read_voice_config(c) == IF c \in Torn THEN DefaultVoice ELSE c

(* The relay's own reader looks for a key below its header only.           *)
toml_get(c) == IF c \in Torn \/ c.sections = None THEN DefaultVoice ELSE c

read_active_profile_id(c) == IF c \in Torn THEN None ELSE c["id"]

Reader(f, c) ==
  CASE f = "cost"     -> load_config_from(c)
    [] f = "secrets"  -> existing_secrets(c)
    [] f = "provider" -> [id |-> read_active_provider(c)]
    [] f = "mounts"   -> mounts_read(c)
    [] f = "network"  -> network_read(c)
    [] f = "nft"      -> IF c \in Torn THEN Broken ELSE c
    [] f = "catalog"  -> read_catalog(c)
    [] f = "voice"    -> read_voice_config(c)
    [] f = "active"   -> [id |-> read_active_profile_id(c)]

(* Readers that go on with the defaults when the file cannot be read.      *)
Lenient == {"secrets", "voice"}

-----------------------------------------------------------------------------
(* The change a command makes to its copy; None when it refuses.           *)

(* cost set: one cap, or what to do when it is reached.                    *)
cost_set(c, arg) ==
  IF arg = "warn" THEN [c EXCEPT !.trip = arg] ELSE [c EXCEPT !.cap = arg]

(* Mutant of quiet_hours_set: its section is written into a new file.      *)
quiet_hours_setAlone(c, arg) == [DefaultCost EXCEPT !.quiet = arg]

quiet_hours_set(c, arg) == [c EXCEPT !.quiet = arg]

(* The line of this variable is replaced or appended, the others are kept. *)
write_secret_to(c, i) == [c EXCEPT ![i] = "new"]

add_host_fs(c, m) ==
  IF c[<<"host", m>>] # None THEN None ELSE [c EXCEPT ![<<"host", m>>] = "ro"]

(* Only this one looks at both kinds.                                      *)
add_network_mount(c, m) ==
  IF \E k \in {"host", "net"} : c[<<k, m>>] # None THEN None
  ELSE [c EXCEPT ![<<"net", m>>] = "ro"]

remove_by_id(c, m) ==
  IF \A k \in {"host", "net"} : c[<<k, m>>] = None THEN None
  ELSE [c EXCEPT ![<<"host", m>>] = None, ![<<"net", m>>] = None]

(* A first whitelist without hosts takes the profile's defaults.           *)
set_mode(c, mode) ==
  [mode  |-> mode,
   hosts |-> IF mode = "whitelist" /\ c.hosts = None THEN "seed" ELSE c.hosts]

allow_mutate(c, hosts) == [c EXCEPT !.hosts = hosts]

(* A model that has an entry keeps it; a new one gets the port above the   *)
(* highest.  The $schema, tier and sha256 that the bake wrote beside the   *)
(* entries are not written back; nothing on the device reads them.         *)
register_entry(c, m) ==
  IF c[m] # 0 THEN c
  ELSE [c EXCEPT ![m] = Max({1} \union {c[n] : n \in Models}) + 1]

(* The keys that read_voice_config knows are written back flat: the        *)
(* headers, and the keys that only the relay knows, are gone.              *)
set_wake_word(c, arg) == [c EXCEPT !.wake = arg, !.sections = None]

(* generate_nftables_ruleset: an open policy accepts; the others drop, and *)
(* a whitelist lets through the hosts whose names could be resolved.       *)
generate_nftables_ruleset(c, resolved) ==
  [mode  |-> c.mode,
   hosts |-> IF c.mode = "whitelist" /\ resolved THEN c.hosts ELSE None]

Edit(do, arg, c) ==
  CASE do = "cost set"         -> cost_set(c, arg)
    [] do = "quiet-hours set"  -> quiet_hours_set(c, arg)
    [] do = "model set"        -> write_secret_to(c, arg)
    [] do = "mounts add"       -> add_host_fs(c, arg)
    [] do = "mounts net-add"   -> add_network_mount(c, arg)
    [] do = "mounts remove"    -> remove_by_id(c, arg)
    [] do = "network mode"     -> set_mode(c, arg)
    [] do = "network allow"    -> allow_mutate(c, arg)
    [] do = "model register"   -> register_entry(c, arg)
    [] do = "voice wake"       -> set_wake_word(c, arg)

-----------------------------------------------------------------------------
(* The quiet window: minutes of a day of Day minutes, closed at its start  *)
(* and open at its end; a start after the end crosses midnight, and equal  *)
(* ends are no window at all.                                              *)

is_active(now, start, end) ==
  CASE start = end -> FALSE
    [] start < end -> start <= now /\ now < end
    [] OTHER       -> start <= now \/ now < end

(* local_now_minutes: the Euclidean remainder of the shifted clock.        *)
local_now_minutes(utc, offset, Day) == (utc + offset) % Day
=============================================================================
