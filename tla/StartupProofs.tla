---------------------------- MODULE StartupProofs ----------------------------
(***************************************************************************)
(* Proofs about Startup for every set of configuration files, users, limits*)
(* and file names, with files and a port that change at any time: sizes    *)
(* stay within a size_t, a server that listens does so with what its file  *)
(* says or has fallen back as documented, and the start implements the one *)
(* that Server takes for granted.                                          *)
(***************************************************************************)
EXTENDS Startup, SequenceTheorems, TLAPS

-----------------------------------------------------------------------------
(* Keys, numbers and texts.                                                *)

\* The keys and their kinds.
LEMMA KeysKnown ==
  /\ DOMAIN Defaults = Keys
  /\ {PortKey, SizeKey, LevelKey} \cup IntKeys \cup MBKeys \cup FlagKeys \cup TextKeys
       \subseteq Keys
  /\ PortKey \notin IntKeys \cup MBKeys \cup FlagKeys \cup TextKeys \cup {SizeKey, LevelKey}
  /\ SizeKey \notin IntKeys \cup MBKeys \cup FlagKeys \cup TextKeys \cup {LevelKey}
  /\ LevelKey \notin IntKeys \cup MBKeys \cup FlagKeys \cup TextKeys
  /\ \A k \in FlagKeys : k \notin IntKeys \cup MBKeys \cup TextKeys
  /\ \A k \in MBKeys : k \notin IntKeys \cup TextKeys
  /\ \A k \in IntKeys : k \notin TextKeys
  BY DEF Keys, Defaults, PortKey, SizeKey, LevelKey, IntKeys, MBKeys, FlagKeys, TextKeys,
    FileKeys

\* The result of an operation on size_t is a size_t.
LEMMA UnsignedIsSize ==
  ASSUME NEW n \in Int
  PROVE  Unsigned(n) \in 0..SizeMax - 1 /\ Unsigned(n) \in Int
<1>1. SizeMax \in Nat /\ SizeMax > 0
  <2>1. SizeMax \in Nat /\ 1024 < SizeMax
    BY StartupAssumption
  <2>2. QED  BY <2>1
<1>2. \A m \in Nat : m > 0 => n % m \in 0..m - 1
  OBVIOUS
<1>3. QED  BY <1>1, <1>2 DEF Unsigned

\* What load_config starts from is a Config.
LEMMA DefaultsAreConfig == IsConfig(Defaults)
<1>1. MB \in Nat /\ SizeMax \in Nat /\ 100 * MB < SizeMax /\ 1024 < SizeMax
  BY StartupAssumption
<1>2. 100 * MB \in 0..SizeMax - 1 /\ 10 * MB \in 0..SizeMax - 1 /\ 1024 \in 0..SizeMax - 1
  BY <1>1
<1>3. /\ Defaults[PortKey] = 80 /\ Defaults[LevelKey] = "info"
      /\ Defaults["CACHE_MAX_SIZE"] = 100 * MB /\ Defaults["LOG_MAX_SIZE"] = 10 * MB
      /\ Defaults[SizeKey] = 1024
      /\ \A k \in FlagKeys : Defaults[k] \in BOOLEAN
      /\ \A k \in IntKeys : Defaults[k] \in Nat \ {0}
  BY DEF Defaults, PortKey, LevelKey, SizeKey, FlagKeys, IntKeys
<1>4. \A k \in MBKeys \cup {SizeKey} : Defaults[k] \in 0..SizeMax - 1
  BY <1>2, <1>3 DEF MBKeys
<1>5. Defaults[PortKey] \in Ports /\ Defaults[LevelKey] \in Levels
  BY <1>3, SMT DEF Levels, Ports
<1>6. ASSUME NEW k \in Keys  PROVE Fits(k, Defaults[k])
  <2>1. k = PortKey => Defaults[k] \in Ports
    BY <1>5
  <2>2. k = LevelKey => Defaults[k] \in Levels
    BY <1>5
  <2>3. k \in IntKeys => Defaults[k] \in Nat \ {0}
    BY <1>3
  <2>4. k \in FlagKeys => Defaults[k] \in BOOLEAN
    BY <1>3
  <2>5. k \in MBKeys \cup {SizeKey} => Defaults[k] \in 0..SizeMax - 1
    BY <1>4
  <2>6. QED  BY <2>1, <2>2, <2>3, <2>4, <2>5, Zenon DEF Fits
<1>7. QED  BY <1>6, KeysKnown DEF IsConfig

\* The pieces of a file are numbered from 1, and their numbers are numbers.
LEMMA TextKnown ==
  ASSUME config_file \in ConfigFiles
  PROVE  /\ Len(Text) \in Nat /\ DOMAIN Text = 1..Len(Text)
         /\ config_file = NoFile => Len(Text) = 0
         /\ \A n \in 1..Len(Text) : Text[n].key \in NumberKeys => Text[n].value \in Int
<1>1. CASE config_file = NoFile
  BY <1>1 DEF Text
<1>2. CASE config_file # NoFile
  <2>1. /\ config_file \in Seq(ToSet(config_file))
        /\ \A n \in DOMAIN config_file :
             config_file[n].key \in NumberKeys => config_file[n].value \in Int
    BY <1>2, StartupAssumption
  <2>2. Len(config_file) \in Nat /\ DOMAIN config_file = 1..Len(config_file)
    BY <2>1, LenProperties
  <2>3. QED  BY <2>1, <2>2, <1>2 DEF Text
<1>3. QED  BY <1>1, <1>2

\* A Config with another value that fits its key is a Config.
LEMMA ConfigWith ==
  ASSUME NEW c, IsConfig(c), NEW key \in Keys, NEW value, Fits(key, value)
  PROVE  IsConfig([c EXCEPT ![key] = value])
  BY DEF IsConfig

\* What is stored for each kind of key.
LEMMA StoredByKind ==
  ASSUME NEW piece
  PROVE  /\ piece.key \in FlagKeys => Stored(piece) \in BOOLEAN
         /\ piece.key = SizeKey => Stored(piece) = Unsigned(piece.value)
         /\ piece.key \in MBKeys => Stored(piece) = Unsigned(Unsigned(piece.value) * MB)
         /\ piece.key \notin FlagKeys \cup MBKeys \cup {SizeKey} => Stored(piece) = piece.value
<1> DEFINE flag == piece.key \in FlagKeys
           size == piece.key = SizeKey
           megabytes == piece.key \in MBKeys
<1>1. flag => ~ size /\ ~ megabytes
  BY KeysKnown
<1>2. megabytes => ~ size
  BY KeysKnown
<1>3. flag => Stored(piece) = (piece.value = "true")
  BY <1>1, Zenon DEF Stored
<1>4. size => Stored(piece) = Unsigned(piece.value)
  BY <1>1, <1>2, Zenon DEF Stored
<1>5. megabytes => Stored(piece) = Unsigned(Unsigned(piece.value) * MB)
  BY <1>1, <1>2, Zenon DEF Stored
<1>6. ~ flag /\ ~ size /\ ~ megabytes => Stored(piece) = piece.value
  BY Zenon DEF Stored
<1>7. flag => Stored(piece) \in BOOLEAN
  BY <1>3, Zenon
<1>8. QED  BY <1>4, <1>5, <1>6, <1>7

\* What load_config stores for a setting that it takes is of the key's kind.
LEMMA StoredIsConfig ==
  ASSUME TypeOK, NEW n \in 1..Len(Text), Accepts(Text[n])
  PROVE  /\ Text[n].key \in Keys
         /\ IsConfig([config EXCEPT ![Text[n].key] = Stored(Text[n])])
<1> DEFINE key == Text[n].key
           value == Text[n].value
           stored == Stored(Text[n])
<1>1. IsConfig(config)
  BY DEF TypeOK
<1>2. key \in NumberKeys => value \in Int
  BY TextKnown DEF TypeOK
<1>3. \/ key = PortKey /\ value \in Ports
      \/ key \in IntKeys /\ value > 0
      \/ key \in MBKeys \cup {SizeKey}
      \/ key \in FlagKeys \cup TextKeys
      \/ key = LevelKey /\ value \in Levels
  BY Zenon DEF Accepts
<1>0. /\ key \in FlagKeys => stored \in BOOLEAN
      /\ key = SizeKey => stored = Unsigned(value)
      /\ key \in MBKeys => stored = Unsigned(Unsigned(value) * MB)
      /\ key \notin FlagKeys \cup MBKeys \cup {SizeKey} => stored = value
  BY StoredByKind, Zenon
<1> HIDE DEF key, value, stored
<1>4. key \in Keys
  BY <1>3, KeysKnown
<1>5. key \notin FlagKeys \cup MBKeys \cup {SizeKey} => stored = value
  BY <1>0
<1>6. key = PortKey => stored \in Ports
  BY <1>3, <1>5, KeysKnown
<1>7. key \in IntKeys => stored \in Nat \ {0}
  <2>1. key \in IntKeys => /\ key \in NumberKeys /\ value > 0
                           /\ key \notin FlagKeys \cup MBKeys \cup {SizeKey}
    BY <1>3, KeysKnown DEF NumberKeys
  <2>2. QED  BY <2>1, <1>2, <1>5
<1>8. key \in MBKeys \cup {SizeKey} => stored \in 0..SizeMax - 1
  <2>1. key \in MBKeys \cup {SizeKey} => value \in Int
    BY <1>2 DEF NumberKeys
  <2>2. CASE key = SizeKey
    BY <2>1, <2>2, <1>0, UnsignedIsSize
  <2>3. CASE key \in MBKeys
    <3>1. Unsigned(value) \in Int
      BY <2>1, <2>3, UnsignedIsSize
    <3>2. MB \in Nat
      BY StartupAssumption
    <3>3. Unsigned(value) * MB \in Int
      BY <3>1, <3>2
    <3>4. QED  BY <3>3, <2>3, <1>0, UnsignedIsSize
  <2>4. QED  BY <2>2, <2>3
<1>9. key \in FlagKeys => stored \in BOOLEAN
  BY <1>0
<1>10. key = LevelKey => stored \in Levels
  BY <1>3, <1>5, KeysKnown
<1>11. Fits(key, stored)
  BY <1>6, <1>7, <1>8, <1>9, <1>10, Zenon DEF Fits
<1>12. IsConfig([config EXCEPT ![key] = stored])
  BY <1>1, <1>4, <1>11, ConfigWith
<1>13. QED  BY <1>4, <1>12 DEF key, stored

-----------------------------------------------------------------------------
(* The settings of a file.                                                 *)

\* Before the first piece the settings are the defaults.
LEMMA NoSettingYet ==
  ASSUME NEW key
  PROVE  Setting(key, 0) = Defaults[key]
<1>1. Taken(key, 0) = {}
  BY DEF Taken
<1>2. QED  BY <1>1 DEF Setting

\* One piece more changes the setting of its key, if it is taken, and no other.
LEMMA NextSetting ==
  ASSUME NEW key, NEW n \in Nat
  PROVE  Setting(key, n + 1) =
           IF Text[n+1].key = key /\ Accepts(Text[n+1]) THEN Stored(Text[n+1])
           ELSE Setting(key, n)
<1>1. CASE Text[n+1].key = key /\ Accepts(Text[n+1])
  <2>1. n + 1 \in Taken(key, n + 1) /\ \A m \in Taken(key, n + 1) : m \in Int /\ n + 1 >= m
    BY <1>1 DEF Taken
  <2>2. Max(Taken(key, n + 1)) = n + 1
    BY <2>1 DEF Max
  <2>3. QED  BY <2>1, <2>2, <1>1 DEF Setting
<1>2. CASE ~ (Text[n+1].key = key /\ Accepts(Text[n+1]))
  <2>1. Taken(key, n + 1) = Taken(key, n)
    <3>1. \A m \in 1..n+1 : m \in 1..n \/ m = n + 1
      OBVIOUS
    <3>2. \A m \in 1..n : m \in 1..n+1
      OBVIOUS
    <3>3. QED  BY <3>1, <3>2, <1>2 DEF Taken
  <2>2. QED  BY <2>1, <1>2 DEF Setting
<1>3. QED  BY <1>1, <1>2


\* The flags of a Config are Booleans, and the port and the number of threads numbers.
LEMMA ConfigTypes ==
  ASSUME NEW c, IsConfig(c)
  PROVE  /\ c.ENABLE_HTTPS \in BOOLEAN /\ c.THREADPOOL_ENABLED \in BOOLEAN
         /\ c.MAX_THREADS \in Nat \ {0}
         /\ DOMAIN c = Keys /\ PortKey \in Keys
         /\ {"ENABLE_HTTPS", "THREADPOOL_ENABLED", "MAX_THREADS"} \subseteq Keys
         /\ PortKey \notin {"ENABLE_HTTPS", "THREADPOOL_ENABLED", "MAX_THREADS"}
<1>1. /\ "MAX_THREADS" \in IntKeys
      /\ "ENABLE_HTTPS" \in FlagKeys /\ "THREADPOOL_ENABLED" \in FlagKeys
      /\ PortKey \notin {"ENABLE_HTTPS", "THREADPOOL_ENABLED", "MAX_THREADS"}
  BY DEF IntKeys, FlagKeys, PortKey
<1>2. /\ Fits("MAX_THREADS", c["MAX_THREADS"]) /\ Fits("ENABLE_HTTPS", c["ENABLE_HTTPS"])
      /\ Fits("THREADPOOL_ENABLED", c["THREADPOOL_ENABLED"])
      /\ DOMAIN c = Keys /\ PortKey \in Keys
      /\ {"ENABLE_HTTPS", "THREADPOOL_ENABLED", "MAX_THREADS"} \subseteq Keys
  BY <1>1, KeysKnown DEF IsConfig
<1>3. QED  BY <1>1, <1>2 DEF Fits

-----------------------------------------------------------------------------
(* The invariant is inductive.                                             *)

\* The invariant holds at the start.
LEMMA InitInv ==
  ASSUME Init
  PROVE  IInv
<1>1. line \in 1..Len(Text) + 1
  BY TextKnown DEF Init
<1>2. MaxChanges \in Nat
  BY StartupAssumption
<1>3. TypeOK
  BY <1>1, <1>2, DefaultsAreConfig DEF Init, TypeOK, Dirs, Steps, Loading, MaxThreads
<1>4. ReadSoFar /\ ReadToEnd /\ PoolByStep /\ LoadedByStep
  BY DEF Init, ReadSoFar, ReadToEnd, PoolByStep, LoadedByStep
<1>5. QED  BY <1>3, <1>4 DEF Init, IInv

\* A fresh process has read nothing and has the defaults.
LEMMA ExecInv ==
  ASSUME IInv, Exec
  PROVE  IInv'
<1>1. /\ UNCHANGED <<config_file, user, load, files, tmp, port_taken, changes, previous>>
      /\ at' = "load" /\ line' = 1 /\ config' = Defaults /\ cwd' = "/" /\ limit' = 0
      /\ pool' = 0 /\ loaded' = {}
  BY DEF Exec, Goto, given, world
<1>2. Text' = Text
  BY <1>1 DEF Text
<1>3. TypeOK'
  BY <1>1, <1>2, DefaultsAreConfig DEF IInv, TypeOK, Dirs, Steps, Loading, MaxThreads
<1>4. ReadSoFar'
  BY <1>1, <1>2, NoSettingYet DEF ReadSoFar, Setting, Taken, Text
<1>5. ReadToEnd' /\ PoolByStep' /\ LoadedByStep'
  BY <1>1 DEF ReadToEnd, PoolByStep, LoadedByStep
<1>6. QED  BY <1>1, <1>3, <1>4, <1>5 DEF IInv

\* The settings of the file stay what they are with the file.
LEMMA SettingsStay ==
  ASSUME config_file' = config_file, NEW key
  PROVE  Configured(key)' = Configured(key)
<1>1. Text' = Text
  BY DEF Text
<1>2. Taken(key, Len(Text))' = Taken(key, Len(Text))
  BY <1>1 DEF Taken
<1>3. QED  BY <1>1, <1>2 DEF Configured, Setting

\* What does not touch the configuration leaves it following the file.
LEMMA StillFollows ==
  ASSUME config_file' = config_file, config' = config, FollowsFile
  PROVE  FollowsFile'
<1>1. \A key : Configured(key)' = Configured(key)
  BY SettingsStay
<1>2. QED  BY <1>1 DEF FollowsFile

\* A start without a file goes on with the defaults, which are what is configured.
LEMMA OpenFailsInv ==
  ASSUME IInv, OpenFails
  PROVE  IInv'
<1>1. /\ UNCHANGED <<config_file, user, load, files, tmp, port_taken, changes, previous>>
      /\ UNCHANGED <<line, config, cwd, limit, pool, loaded>>
      /\ at = "load" /\ config_file = NoFile /\ at' = "isolate"
  BY DEF OpenFails, Goto, given, world, process
<1>2. Text' = Text
  BY <1>1 DEF Text
<1>3. TypeOK'
  BY <1>1, <1>2 DEF IInv, TypeOK, Steps, Loading
<1>4. \A key \in Keys : config[key] = Configured(key)
  <2>1. Len(Text) = 0 /\ line = 1 /\ line - 1 = 0
    BY <1>1, TextKnown DEF IInv, TypeOK
  <2>2. QED  BY <2>1, <1>1 DEF IInv, ReadSoFar, Configured
<1>5. FollowsFile
  BY <1>4, ConfigTypes DEF IInv, TypeOK, FollowsFile
<1>6. FollowsFile'
  BY <1>5, <1>1, StillFollows
<1>7. ReadSoFar' /\ ReadToEnd' /\ PoolByStep' /\ LoadedByStep'
  BY <1>1, <1>6 DEF IInv, ReadSoFar, ReadToEnd, PoolByStep, LoadedByStep
<1>8. QED  BY <1>1, <1>3, <1>7 DEF IInv

\* One piece more is read.
LEMMA ReadPieceInv ==
  ASSUME IInv, ReadPiece
  PROVE  IInv'
<1> DEFINE piece == Text[line]
<1>1. /\ UNCHANGED <<config_file, user, load, files, tmp, port_taken, changes, previous>>
      /\ UNCHANGED <<at, cwd, limit, pool, loaded>>
      /\ at = "load" /\ line <= Len(Text) /\ line' = line + 1
      /\ config' = IF Accepts(piece) THEN [config EXCEPT ![piece.key] = Stored(piece)] ELSE config
  BY DEF ReadPiece, given, world
<1>2. Text' = Text
  BY <1>1 DEF Text
<1>3. Len(Text) \in Nat /\ line \in 1..Len(Text) /\ line - 1 \in Nat /\ (line - 1) + 1 = line
  BY <1>1, TextKnown DEF IInv, TypeOK
<1>4. IsConfig(config) /\ (Accepts(piece) => piece.key \in Keys)
  BY <1>3, StoredIsConfig DEF IInv, TypeOK
<1>5. IsConfig(config')
  BY <1>1, <1>3, <1>4, StoredIsConfig DEF IInv
<1>6. TypeOK'
  BY <1>1, <1>2, <1>3, <1>5 DEF IInv, TypeOK
<1>7. ReadSoFar'
  <2>1. line' - 1 = line
    BY <1>1, <1>3
  <2>2. ASSUME NEW key \in Keys  PROVE Setting(key, line - 1)' = Setting(key, line)
    BY <2>1, <1>2 DEF Setting, Taken
  <2>3. ASSUME NEW key \in Keys  PROVE config'[key] = Setting(key, line)
    <3>1. config[key] = Setting(key, line - 1)
      BY <1>1 DEF IInv, ReadSoFar
    <3>2. Setting(key, line) = IF piece.key = key /\ Accepts(piece) THEN Stored(piece)
                               ELSE Setting(key, line - 1)
      BY <1>3, NextSetting
    <3>3. DOMAIN config = Keys
      BY <1>4 DEF IsConfig
    <3> HIDE DEF piece
    <3>4. QED  BY <3>1, <3>2, <3>3, <1>1, <1>4
  <2>4. QED  BY <2>2, <2>3 DEF ReadSoFar
<1>8. ReadToEnd' /\ PoolByStep' /\ LoadedByStep'
  BY <1>1 DEF IInv, ReadToEnd, PoolByStep, LoadedByStep
<1>9. QED  BY <1>1, <1>6, <1>7, <1>8 DEF IInv

\* At the end of the file the configuration is what the whole file says.
LEMMA EndOfFileInv ==
  ASSUME IInv, EndOfFile
  PROVE  IInv'
<1>1. /\ UNCHANGED <<config_file, user, load, files, tmp, port_taken, changes, previous>>
      /\ UNCHANGED <<line, config, cwd, limit, pool, loaded>>
      /\ at = "load" /\ line > Len(Text) /\ at' = "cert"
  BY DEF EndOfFile, Goto, given, world, process
<1>2. Text' = Text
  BY <1>1 DEF Text
<1>3. TypeOK'
  BY <1>1, <1>2 DEF IInv, TypeOK, Steps, Loading
<1>4. \A key \in Keys : config[key] = Configured(key)
  <2>1. line - 1 = Len(Text)
    BY <1>1, TextKnown DEF IInv, TypeOK
  <2>2. QED  BY <2>1, <1>1 DEF IInv, ReadSoFar, Configured
<1>5. FollowsFile
  BY <1>4, ConfigTypes DEF IInv, TypeOK, FollowsFile
<1>6. FollowsFile'
  BY <1>5, <1>1, StillFollows
<1>7. ReadSoFar' /\ ReadToEnd' /\ PoolByStep' /\ LoadedByStep'
  BY <1>1, <1>6 DEF IInv, ReadSoFar, ReadToEnd, PoolByStep, LoadedByStep
<1>8. QED  BY <1>1, <1>3, <1>7 DEF IInv

-----------------------------------------------------------------------------
(* What a step changes: a flag that is switched off, or nothing of the     *)
(* configuration.                                                          *)

\* A Config with a flag switched off is a Config and follows the file.
LEMMA Disabled ==
  ASSUME TypeOK, NEW flag \in {"ENABLE_HTTPS", "THREADPOOL_ENABLED"}, Disable(flag),
         UNCHANGED config_file
  PROVE  /\ IsConfig(config')
         /\ config'[flag] = FALSE /\ \A key \in Keys \ {flag} : config'[key] = config[key]
         /\ FollowsFile => FollowsFile'
<1>1. config' = [config EXCEPT ![flag] = FALSE] /\ IsConfig(config)
  BY DEF Disable, TypeOK
<1>2. flag \in Keys /\ Fits(flag, FALSE)
  BY KeysKnown DEF Fits, FlagKeys
<1>3. IsConfig(config')
  BY <1>1, <1>2, ConfigWith
<1>4. config'[flag] = FALSE /\ \A key \in Keys \ {flag} : config'[key] = config[key]
  BY <1>1, <1>2 DEF IsConfig
<1>5. ASSUME NEW key  PROVE Configured(key)' = Configured(key)
  BY SettingsStay
<1>6. FollowsFile => FollowsFile'
  BY <1>1, <1>4, <1>5, ConfigTypes DEF FollowsFile
<1>7. QED  BY <1>3, <1>4, <1>6

\* Missing files switch TLS off.
LEMMA CheckFilesOfLoadInv ==
  ASSUME IInv, CheckCert \/ CheckKey
  PROVE  IInv'
<1>1. /\ UNCHANGED <<config_file, user, load, files, tmp, port_taken, changes, previous>>
      /\ UNCHANGED <<line, cwd, limit, pool, loaded>>
      /\ config' = config \/ Disable("ENABLE_HTTPS")
      /\ at \in {"cert", "key"} /\ at' \in {"key", "port"}
  BY DEF CheckCert, CheckKey, Goto, given, world
<1>2. Text' = Text
  BY <1>1 DEF Text
<1>3. IsConfig(config') /\ FollowsFile'
  BY <1>1, Disabled, StillFollows DEF IInv, TypeOK, ReadToEnd
<1>4. TypeOK'
  BY <1>1, <1>2, <1>3 DEF IInv, TypeOK, Steps, Loading
<1>5. ReadSoFar' /\ ReadToEnd' /\ PoolByStep' /\ LoadedByStep'
  BY <1>1, <1>3 DEF IInv, ReadSoFar, ReadToEnd, PoolByStep, LoadedByStep
<1>6. QED  BY <1>1, <1>4, <1>5 DEF IInv

\* Port 80 is given up by somebody who cannot have it.
LEMMA CheckPortInv ==
  ASSUME IInv, CheckPort
  PROVE  IInv'
<1>1. /\ UNCHANGED <<config_file, user, load, files, tmp, port_taken, changes, previous>>
      /\ UNCHANGED <<line, cwd, limit, pool, loaded>>
      /\ config' = config \/ config' = [config EXCEPT ![PortKey] = FallbackPort]
      /\ at = "port" /\ at' = "isolate"
  BY DEF CheckPort, Goto, given, world
<1>2. Text' = Text
  BY <1>1 DEF Text
<1>3. IsConfig(config) /\ FollowsFile
  BY <1>1 DEF IInv, TypeOK, ReadToEnd
<1>4. ASSUME config' = [config EXCEPT ![PortKey] = FallbackPort]
      PROVE  IsConfig(config') /\ FollowsFile'
  <2>1. Fits(PortKey, FallbackPort) /\ PortKey \in Keys
    <3>1. FallbackPort \in Ports
      BY SMT DEF FallbackPort, Ports
    <3>2. QED  BY <3>1, KeysKnown DEF Fits
  <2>2. IsConfig(config')
    BY <2>1, <1>3, <1>4, ConfigWith
  <2>3. config'[PortKey] = FallbackPort
    BY <2>1, <1>3, <1>4 DEF IsConfig
  <2>4. \A key \in Keys \ {PortKey} : config'[key] = config[key]
    BY <2>1, <1>3, <1>4 DEF IsConfig
  <2>5. ASSUME NEW key  PROVE Configured(key)' = Configured(key)
    BY <1>1, SettingsStay
  <2>6. FollowsFile'
    <3>1. ASSUME NEW key \in {"ENABLE_HTTPS", "THREADPOOL_ENABLED"}, config'[key]
          PROVE  Configured(key)'
      BY <3>1, <2>4, <2>5, <1>3, ConfigTypes DEF FollowsFile
    <3>2. ASSUME NEW key \in Keys \ {PortKey, "ENABLE_HTTPS", "THREADPOOL_ENABLED"}
          PROVE  config'[key] = Configured(key)'
      BY <2>4, <2>5, <1>3 DEF FollowsFile
    <3>3. QED  BY <3>1, <3>2, <2>3 DEF FollowsFile
  <2>7. QED  BY <2>2, <2>6
<1>5. ASSUME config' = config
      PROVE  IsConfig(config') /\ FollowsFile'
  <2>1. UNCHANGED <<config_file, config>>
    BY <1>1, <1>5
  <2>2. QED  BY <2>1, <1>5, <1>3, StillFollows
<1>6. IsConfig(config') /\ FollowsFile'
  BY <1>1, <1>4, <1>5
<1>7. TypeOK'
  BY <1>1, <1>2, <1>6 DEF IInv, TypeOK, Steps, Loading
<1>8. ReadSoFar' /\ ReadToEnd' /\ PoolByStep' /\ LoadedByStep'
  BY <1>1, <1>6 DEF IInv, ReadSoFar, ReadToEnd, PoolByStep, LoadedByStep
<1>9. QED  BY <1>1, <1>7, <1>8 DEF IInv

-----------------------------------------------------------------------------
(* main.                                                                   *)

\* exit(EXIT_FAILURE): what the process had is gone, whatever it was.
LEMMA ExitInv ==
  ASSUME IInv, Exit
  PROVE  IInv'
<1>1. /\ UNCHANGED <<config_file, user, load, files, tmp, port_taken, changes>>
      /\ UNCHANGED <<line, config, cwd, limit, pool, loaded>>
      /\ at' = "down"
      /\ \/ previous' = previous
         \/ previous' = [https |-> config.ENABLE_HTTPS, threadpool |-> config.THREADPOOL_ENABLED]
  BY DEF Exit, given, world, process
<1>2. Text' = Text
  BY <1>1 DEF Text
<1>3. previous' \in [https : BOOLEAN, threadpool : BOOLEAN]
  BY <1>1, ConfigTypes DEF IInv, TypeOK
<1>4. TypeOK'
  BY <1>1, <1>2, <1>3 DEF IInv, TypeOK, Steps, Loading
<1>5. ReadSoFar' /\ ReadToEnd' /\ PoolByStep' /\ LoadedByStep'
  BY <1>1 DEF ReadSoFar, ReadToEnd, PoolByStep, LoadedByStep
<1>6. QED  BY <1>1, <1>4, <1>5 DEF IInv

\* isolation_init: a limit or none, and the working directory.
LEMMA IsolateInv ==
  ASSUME IInv, Isolate
  PROVE  IInv'
<1>1. /\ UNCHANGED <<config_file, user, load, files, tmp, port_taken, changes, previous>>
      /\ UNCHANGED <<line, config, pool, loaded>>
      /\ limit' \in {0, ProcessLimit} /\ cwd' = "/tmp"
      /\ at = "isolate" /\ at' = "pool"
  BY DEF Isolate, Goto, given, world
<1>2. Text' = Text
  BY <1>1 DEF Text
<1>3. TypeOK'
  BY <1>1, <1>2 DEF IInv, TypeOK, Steps, Loading, Dirs
<1>4. FollowsFile'
  BY <1>1, StillFollows DEF IInv, ReadToEnd
<1>5. ReadSoFar' /\ ReadToEnd' /\ PoolByStep' /\ LoadedByStep'
  BY <1>1, <1>4 DEF IInv, ReadSoFar, ReadToEnd, PoolByStep, LoadedByStep
<1>6. QED  BY <1>1, <1>3, <1>5 DEF IInv

\* The pool has the threads that the configuration says, or its flag is off.
LEMMA PoolInv ==
  ASSUME IInv, CreatePool \/ CreateFails \/ NoPool
  PROVE  IInv'
<1>1. /\ UNCHANGED <<config_file, user, load, files, tmp, port_taken, changes, previous>>
      /\ UNCHANGED <<line, cwd, limit, loaded>>
      /\ at = "pool" /\ at' = "context"
      /\ \/ /\ config' = config /\ config.THREADPOOL_ENABLED
            /\ config.MAX_THREADS <= MaxThreads /\ pool' = config.MAX_THREADS
         \/ Disable("THREADPOOL_ENABLED") /\ pool' = pool
         \/ config' = config /\ ~ config.THREADPOOL_ENABLED /\ pool' = pool
  BY DEF CreatePool, CreateFails, NoPool, Goto, given, world, process
<1>2. Text' = Text
  BY <1>1 DEF Text
<1>3. pool = 0
  BY <1>1 DEF IInv, PoolByStep
<1>4. IsConfig(config') /\ FollowsFile'
  BY <1>1, Disabled, StillFollows DEF IInv, TypeOK, ReadToEnd
<1>5. pool' \in 0..MaxThreads
  <2>1. 0 \in 0..MaxThreads
    BY DEF MaxThreads
  <2>2. config.MAX_THREADS \in Nat
    BY ConfigTypes DEF IInv, TypeOK
  <2>3. config.MAX_THREADS <= MaxThreads => config.MAX_THREADS \in 0..MaxThreads
    BY <2>2 DEF MaxThreads
  <2>4. QED  BY <2>1, <2>3, <1>1, <1>3
<1>6. pool' = IF config'.THREADPOOL_ENABLED THEN config'.MAX_THREADS ELSE 0
  <2>1. CASE Disable("THREADPOOL_ENABLED") /\ pool' = pool
    <3>1. config'.THREADPOOL_ENABLED = FALSE
      BY <2>1, <1>1, Disabled DEF IInv
    <3>2. QED  BY <3>1, <2>1, <1>3
  <2>2. CASE config' = config
    BY <2>2, <1>1, <1>3, <2>1
  <2>3. QED  BY <1>1, <2>1, <2>2
<1>7. TypeOK'
  BY <1>1, <1>2, <1>4, <1>5 DEF IInv, TypeOK, Steps, Loading
<1>8. ReadSoFar' /\ ReadToEnd' /\ PoolByStep' /\ LoadedByStep'
  BY <1>1, <1>4, <1>6 DEF IInv, ReadSoFar, ReadToEnd, PoolByStep, LoadedByStep
<1>9. QED  BY <1>1, <1>7, <1>8 DEF IInv

\* The steps that change nothing but where the start is.
LEMMA GoesOnInv ==
  ASSUME IInv, CreateHangs \/ CheckFiles \/ Bind
  PROVE  IInv'
<1>1. /\ UNCHANGED <<config_file, user, load, files, tmp, port_taken, changes, previous>>
      /\ UNCHANGED <<line, config, cwd, limit, pool, loaded>>
      /\ \/ at = "pool" /\ at' = "hung"
         \/ /\ at = "context"
            /\ \/ at' = "use_cert" /\ config.ENABLE_HTTPS
               \/ at' = "bind" /\ ~ config.ENABLE_HTTPS
         \/ at = "bind" /\ at' = "listening" /\ Permitted(config[PortKey])
  BY DEF CreateHangs, CheckFiles, Bind, Goto, given, world, process
<1>2. Text' = Text
  BY <1>1 DEF Text
<1>3. TypeOK'
  BY <1>1, <1>2 DEF IInv, TypeOK, Steps, Loading
<1>4. FollowsFile'
  BY <1>1, StillFollows DEF IInv, ReadToEnd
<1>5. ReadSoFar' /\ ReadToEnd' /\ PoolByStep' /\ LoadedByStep'
  BY <1>1, <1>4 DEF IInv, ReadSoFar, ReadToEnd, PoolByStep, LoadedByStep
<1>6. (at = "listening" => Permitted(config[PortKey]))'
  BY <1>1 DEF Permitted
<1>7. QED  BY <1>3, <1>5, <1>6 DEF IInv

\* The certificate is read, and then its key.
LEMMA UseInv ==
  ASSUME IInv, UseCert \/ UseKey
  PROVE  IInv'
<1>1. /\ UNCHANGED <<config_file, user, load, files, tmp, port_taken, changes, previous>>
      /\ UNCHANGED <<line, config, cwd, limit, pool>>
      /\ \/ /\ at = "use_cert" /\ at' = "use_key"
            /\ loaded' = loaded \cup {"SSL_CERT_PATH"}
         \/ /\ at = "use_key" /\ at' = "bind"
            /\ loaded' = loaded \cup {"SSL_KEY_PATH"}
  BY DEF UseCert, UseKey, Use, FileOf, Goto, given, world
<1>2. Text' = Text
  BY <1>1 DEF Text
<1>3. TypeOK'
  BY <1>1, <1>2 DEF IInv, TypeOK, Steps, Loading, FileKeys
<1>4. FollowsFile'
  BY <1>1, StillFollows DEF IInv, ReadToEnd
<1>5. ReadSoFar' /\ ReadToEnd' /\ PoolByStep'
  BY <1>1, <1>4 DEF IInv, ReadSoFar, ReadToEnd, PoolByStep
<1>6. LoadedByStep'
  BY <1>1 DEF IInv, LoadedByStep, FileKeys
<1>7. QED  BY <1>1, <1>3, <1>5, <1>6 DEF IInv

\* Files and the port change under the start.
LEMMA ChangeInv ==
  ASSUME IInv, Change
  PROVE  IInv'
<1>1. /\ UNCHANGED <<config_file, user, load, previous>>
      /\ UNCHANGED <<at, line, config, cwd, limit, pool, loaded>>
      /\ at # "listening" /\ changes < MaxChanges /\ changes' = changes + 1
      /\ \/ \E p \in Places, state \in {"missing", "bad", "good"} :
              files' = [files EXCEPT ![p] = state] /\ tmp' = tmp /\ port_taken' = port_taken
         \/ tmp' = ~ tmp /\ files' = files /\ port_taken' = port_taken
         \/ port_taken' = ~ port_taken /\ files' = files /\ tmp' = tmp
  BY DEF Change, given, process
<1>2. Text' = Text /\ Places' = Places
  BY <1>1 DEF Text
<1>3. /\ files' \in [Places -> {"missing", "bad", "good"}]
      /\ tmp' \in BOOLEAN /\ port_taken' \in BOOLEAN
  BY <1>1 DEF IInv, TypeOK
<1>4. changes' \in 0..MaxChanges
  <2>1. MaxChanges \in Nat
    BY StartupAssumption
  <2>2. QED  BY <2>1, <1>1 DEF IInv, TypeOK
<1>5. TypeOK'
  BY <1>1, <1>2, <1>3, <1>4 DEF IInv, TypeOK
<1>6. at \notin {"down", "load"} => FollowsFile'
  BY <1>1, StillFollows DEF IInv, ReadToEnd
<1>7. ReadSoFar'
  BY <1>1, <1>2 DEF IInv, ReadSoFar, Setting, Taken
<1>8. ReadToEnd' /\ PoolByStep' /\ LoadedByStep'
  BY <1>1, <1>6 DEF IInv, ReadToEnd, PoolByStep, LoadedByStep
<1>9. QED  BY <1>1, <1>5, <1>7, <1>8 DEF IInv

\* Nothing changes.
LEMMA StutterInv ==
  ASSUME IInv, UNCHANGED vars
  PROVE  IInv'
<1>1. /\ UNCHANGED <<config_file, user, load, previous, files, tmp, port_taken, changes>>
      /\ UNCHANGED <<at, line, config, cwd, limit, pool, loaded>>
  BY DEF vars, given, world, process
<1>2. Text' = Text
  BY <1>1 DEF Text
<1>3. TypeOK'
  BY <1>1, <1>2 DEF IInv, TypeOK
<1>4. ReadSoFar' /\ (at \notin {"down", "load"} => FollowsFile')
  BY <1>1, <1>2, StillFollows DEF IInv, ReadSoFar, ReadToEnd, Setting, Taken
<1>5. ReadToEnd' /\ PoolByStep' /\ LoadedByStep'
  BY <1>1, <1>4 DEF IInv, ReadToEnd, PoolByStep, LoadedByStep
<1>6. (at = "listening" => Permitted(config[PortKey]))'
  BY <1>1 DEF IInv, Permitted
<1>7. QED  BY <1>3, <1>4, <1>5, <1>6 DEF IInv

-----------------------------------------------------------------------------
(* The theorems.                                                           *)

\* Whatever the file says and whatever changes under it, each step of the start
\* leaves configuration, pool and certificates as the next step takes them to be
\* (load_config, isolation_init, main).
THEOREM StartupInvariant == Spec => []IInv
<1>1. Init => IInv
  BY InitInv
<1>2. IInv /\ [Next]_vars => IInv'
  <2> SUFFICES ASSUME IInv, [Next]_vars PROVE IInv'
    OBVIOUS
  <2>1. CASE Exec  BY <2>1, ExecInv
  <2>2. CASE Main
    <3>1. CASE OpenFails \/ ReadPiece \/ EndOfFile
      BY <3>1, OpenFailsInv, ReadPieceInv, EndOfFileInv
    <3>2. CASE CheckCert \/ CheckKey \/ CheckPort
      BY <3>2, CheckFilesOfLoadInv, CheckPortInv
    <3>3. CASE IsolateFails \/ FilesGone \/ UseCertFails \/ UseKeyFails \/ BindFails
      BY <3>3, ExitInv DEF IsolateFails, FilesGone, UseCertFails, UseKeyFails, UseFails, BindFails
    <3>4. CASE Isolate \/ CreatePool \/ CreateFails \/ NoPool
      BY <3>4, IsolateInv, PoolInv
    <3>5. CASE CreateHangs \/ CheckFiles \/ Bind \/ UseCert \/ UseKey
      BY <3>5, GoesOnInv, UseInv
    <3>6. QED  BY <2>2, <3>1, <3>2, <3>3, <3>4, <3>5 DEF Main
  <2>3. CASE Change  BY <2>3, ChangeInv
  <2>4. CASE UNCHANGED vars  BY <2>4, StutterInv
  <2>5. QED  BY <2>1, <2>2, <2>3, <2>4 DEF Next
<1>3. QED  BY <1>1, <1>2, PTL DEF Spec

\* Every size, port, flag and place of the start stays within its type; megabytes
\* that do not fit a size_t included (load_config).
THEOREM StartupTypes == Spec => []TypeOK
<1>1. IInv => TypeOK  BY DEF IInv
<1>2. QED  BY <1>1, StartupInvariant, PTL

\* A server that listens has the certificate and the key of its TLS, the threads
\* of its pool and the settings of its file, for any file (load_config, main).
THEOREM AlwaysListensAsConfigured == Spec => []ListensAsConfigured
<1>1. IInv => ListensAsConfigured
  BY DEF IInv, ListensAsConfigured, PoolByStep, LoadedByStep, ReadToEnd
<1>2. QED  BY <1>1, StartupInvariant, PTL

\* With a file the port has been looked at when load_config returns.
FallenBack ==
  /\ config_file # NoFile
  /\ at \notin {"down", "load", "cert", "key", "port"}
  => user = "root" \/ config[PortKey] # 80

\* Each step of the start keeps it; CheckPort brings it about.
LEMMA StaysFallenBack ==
  ASSUME IInv, FallenBack, [Next]_vars
  PROVE  FallenBack'
<1> USE DEF FallenBack
<1>1. PortKey \in Keys /\ PortKey \notin FlagKeys /\ FallbackPort # 80
  BY KeysKnown, SMT DEF PortKey, FlagKeys, FallbackPort
<1>2. ASSUME NEW flag \in {"ENABLE_HTTPS", "THREADPOOL_ENABLED"}, Disable(flag)
      PROVE  config'[PortKey] = config[PortKey]
  <2>1. config' = [config EXCEPT ![flag] = FALSE] /\ DOMAIN config = Keys
    BY <1>2 DEF Disable, IInv, TypeOK, IsConfig
  <2>2. flag # PortKey
    BY DEF PortKey
  <2>3. QED  BY <2>1, <2>2, <1>1
<1>3. config_file' = config_file /\ user' = user
  BY DEF Next, Main, Change, Exec, Goto, Exit, OpenFails, ReadPiece, EndOfFile, CheckCert,
    CheckKey, CheckPort, Isolate, IsolateFails, CreatePool, CreateFails, CreateHangs, NoPool,
    CheckFiles, FilesGone, Use, UseFails, UseCert, UseCertFails, UseKey, UseKeyFails, Bind,
    BindFails, vars, given
<1>4. CASE Exec \/ OpenFails \/ ReadPiece \/ EndOfFile \/ CheckCert \/ CheckKey
  <2>1. \/ at' \in {"load", "cert", "key", "port"}
        \/ config_file = NoFile
    BY <1>4 DEF Exec, OpenFails, ReadPiece, EndOfFile, CheckCert, CheckKey, Goto
  <2>2. QED  BY <2>1, <1>3
<1>5. CASE CheckPort
  <2>1. CASE config[PortKey] = 80 /\ user # "root"
    <3>1. config' = [config EXCEPT ![PortKey] = FallbackPort]
      BY <1>5, <2>1 DEF CheckPort
    <3>2. config'[PortKey] = FallbackPort
      BY <3>1, <1>1 DEF IInv, TypeOK, IsConfig
    <3>3. QED  BY <3>2, <1>1
  <2>2. CASE ~ (config[PortKey] = 80 /\ user # "root")
    <3>1. config' = config
      BY <1>5, <2>2 DEF CheckPort
    <3>2. QED  BY <3>1, <2>2, <1>3
  <2>3. QED  BY <2>1, <2>2
<1>6. CASE Isolate \/ CreatePool \/ CreateFails \/ NoPool \/ CreateHangs \/ CheckFiles
           \/ UseCert \/ UseKey \/ Bind
  <2>1. at \notin {"down", "load", "cert", "key", "port"}
    BY <1>6 DEF Isolate, CreatePool, CreateFails, NoPool, CreateHangs, CheckFiles, Use,
      UseCert, UseKey, Bind
  <2>2. config' = config \/ Disable("THREADPOOL_ENABLED")
    BY <1>6 DEF Isolate, CreatePool, CreateFails, NoPool, CreateHangs, CheckFiles, Use,
      UseCert, UseKey, Bind, process
  <2>3. config'[PortKey] = config[PortKey]
    BY <2>2, <1>2
  <2>4. QED  BY <2>1, <2>3, <1>3
<1>7. CASE IsolateFails \/ FilesGone \/ UseCertFails \/ UseKeyFails \/ BindFails
  BY <1>7 DEF IsolateFails, FilesGone, UseFails, UseCertFails, UseKeyFails, BindFails, Exit
<1>8. CASE Change \/ UNCHANGED vars
  <2>1. at' = at /\ config' = config
    BY <1>8 DEF Change, vars, process
  <2>2. QED  BY <2>1, <1>3
<1>9. QED  BY <1>4, <1>5, <1>6, <1>7, <1>8 DEF Next, Main

\* With a configuration file nobody without privileges comes to bind with the
\* default port (load_config; without one they do: startup_no_file.cfg).
THEOREM FileMakesPortFallBack == Spec => [](config_file # NoFile => PortFallsBack)
<1>1. Init => FallenBack
  BY DEF Init, FallenBack
<1>2. IInv /\ FallenBack /\ [Next]_vars => FallenBack'
  BY StaysFallenBack
<1>3. FallenBack => (config_file # NoFile => PortFallsBack)
  BY DEF FallenBack, PortFallsBack, Permitted
<1>4. QED  BY <1>1, <1>2, <1>3, StartupInvariant, PTL DEF Spec

-----------------------------------------------------------------------------
(* The start implements that of Server: a step of Server, or none.         *)

\* Where process, configuration, place and pool look the same, Server does not move.
LEMMA Unnoticed ==
  ASSUME Process' = Process, Returned' = Returned, Stage' = Stage, HasPool' = HasPool
  PROVE  UNCHANGED Serving!vars
  BY DEF Serving!vars, Serving!clients, Serving!serving, Serving!pool

\* Loading a configuration is nothing to Server.
LEMMA LoadingRefines ==
  ASSUME IInv, at \in Loading, at' \in Loading, previous' = previous
  PROVE  [Serving!Next]_(Serving!vars)
<1>1. ~ Up /\ ~ Up' /\ Stage = "pool" /\ Stage' = "pool"
  BY DEF Up, Stage, Loading
<1>2. Process' = Process /\ Returned' = Returned /\ HasPool' = HasPool
  BY <1>1 DEF Process, Returned, HasPool
<1>3. QED  BY <1>1, <1>2, Unnoticed

\* The process counts as started when its configuration is complete.
LEMMA IsolateRefines ==
  ASSUME IInv, Isolate
  PROVE  [Serving!Next]_(Serving!vars)
<1>1. /\ at = "isolate" /\ at' = "pool" /\ config' = config /\ pool' = pool
      /\ pool = 0 /\ IsConfig(config)
  BY DEF Isolate, Goto, IInv, PoolByStep, TypeOK
<1>2. ~ Up /\ Up' /\ Stage = "pool" /\ Stage' = "pool"
  BY <1>1 DEF Up, Stage, Loading
<1>3. /\ Process = "down" /\ Process' = "up" /\ ~ HasPool /\ ~ HasPool'
      /\ Returned' \in [https : BOOLEAN, threadpool : BOOLEAN]
  BY <1>1, <1>2, ConfigTypes DEF Process, HasPool, Returned
<1>4. Serving!Start
  BY <1>2, <1>3 DEF Serving!Start, Serving!clients, Serving!serving, Serving!pool
<1>5. QED  BY <1>4 DEF Serving!Next

\* A configuration whose pool was given up.  The two records are compared as
\* functions, field by field.
LEMMA WithoutPool ==
  ASSUME NEW https, NEW threadpool, NEW c, c = [https |-> https, threadpool |-> threadpool]
  PROVE  [c EXCEPT !.threadpool = FALSE] = [https |-> https, threadpool |-> FALSE]
<1> DEFINE x == [c EXCEPT !.threadpool = FALSE]
           y == [https |-> https, threadpool |-> FALSE]
<1>1. DOMAIN c = {"https", "threadpool"} /\ c.https = https
  OBVIOUS
<1>2. x = [field \in {"https", "threadpool"} |-> x[field]]
  <2>1. x = [field \in DOMAIN c |-> IF field = "threadpool" THEN FALSE ELSE c[field]]
    OBVIOUS
  <2>2. QED  BY <2>1, <1>1
<1>3. y = [field \in {"https", "threadpool"} |-> y[field]]
  OBVIOUS
<1>4. x.https = y.https
  BY <1>1
<1>5. x.threadpool = y.threadpool
  BY <1>1
<1> HIDE DEF x, y
<1>6. x = y
  BY <1>2, <1>3, <1>4, <1>5
<1>7. QED  BY <1>6 DEF x, y

\* The pool is created, or done without.
LEMMA PoolRefines ==
  ASSUME IInv, CreatePool \/ CreateFails \/ NoPool
  PROVE  [Serving!Next]_(Serving!vars)
<1>1. /\ at = "pool" /\ at' = "context" /\ pool = 0 /\ IsConfig(config)
      /\ \/ /\ config' = config /\ config.THREADPOOL_ENABLED
            /\ pool' = config.MAX_THREADS
         \/ Disable("THREADPOOL_ENABLED") /\ pool' = pool
         \/ config' = config /\ ~ config.THREADPOOL_ENABLED /\ pool' = pool
  BY DEF CreatePool, CreateFails, NoPool, Goto, process, IInv, PoolByStep, TypeOK
<1>2. /\ Up /\ Up' /\ Stage = "pool" /\ Stage' = "listen"
      /\ Process = "up" /\ Process' = "up" /\ ~ HasPool
  BY <1>1 DEF Up, Stage, Loading, Process, HasPool
<1>3. /\ Returned = [https |-> config.ENABLE_HTTPS, threadpool |-> config.THREADPOOL_ENABLED]
      /\ Returned' = [https |-> config'.ENABLE_HTTPS, threadpool |-> config'.THREADPOOL_ENABLED]
  BY <1>2 DEF Returned
<1>4. CASE config' = config /\ config.THREADPOOL_ENABLED /\ pool' = config.MAX_THREADS
  <2>1. HasPool' /\ Returned' = Returned /\ Returned.threadpool
    <3>1. config.MAX_THREADS > 0
      BY <1>1, ConfigTypes
    <3>2. HasPool'
      BY <3>1, <1>2, <1>4 DEF HasPool
    <3>3. Returned' = Returned /\ Returned.threadpool
      BY <1>3, <1>4
    <3>4. QED  BY <3>2, <3>3
  <2>2. Serving!CreatePool
    BY <2>1, <1>2 DEF Serving!CreatePool, Serving!Pool!Open, Serving!clients,
      Serving!serving
  <2>3. QED  BY <2>2 DEF Serving!Next, Serving!MainStep
<1>5. CASE Disable("THREADPOOL_ENABLED") /\ pool' = pool
  <2>1. ~ HasPool' /\ Returned' = [Returned EXCEPT !.threadpool = FALSE]
    <3>1. /\ config'.THREADPOOL_ENABLED = FALSE
          /\ config'.ENABLE_HTTPS = config.ENABLE_HTTPS
      BY <1>1, <1>5, ConfigTypes DEF Disable
    <3>2. pool' = 0
      BY <1>1, <1>5
    <3>3. ~ HasPool'
      BY <3>2 DEF HasPool
    <3>4. Returned' = [https |-> config.ENABLE_HTTPS, threadpool |-> FALSE]
      BY <3>1, <1>3
    <3>5. QED  BY <3>3, <3>4, <1>3, WithoutPool
  <2>2. Serving!CreatePool
    BY <2>1, <1>2 DEF Serving!CreatePool, Serving!clients, Serving!serving, Serving!pool
  <2>3. QED  BY <2>2 DEF Serving!Next, Serving!MainStep
<1>6. CASE config' = config /\ ~ config.THREADPOOL_ENABLED /\ pool' = pool
  <2>1. ~ HasPool' /\ Returned' = [Returned EXCEPT !.threadpool = FALSE]
    <3>1. config.THREADPOOL_ENABLED = FALSE
      BY <1>1, <1>6, ConfigTypes
    <3>2. pool' = 0
      BY <1>1, <1>6
    <3>3. ~ HasPool'
      BY <3>2 DEF HasPool
    <3>4. Returned' = [https |-> config.ENABLE_HTTPS, threadpool |-> FALSE]
      BY <3>1, <1>3, <1>6
    <3>5. QED  BY <3>3, <3>4, <1>3, WithoutPool
  <2>2. Serving!CreatePool
    BY <2>1, <1>2 DEF Serving!CreatePool, Serving!clients, Serving!serving, Serving!pool
  <2>3. QED  BY <2>2 DEF Serving!Next, Serving!MainStep
<1>7. QED  BY <1>1, <1>4, <1>5, <1>6

\* Certificates are Server's silence, and bind its step to the accept loop.
LEMMA ListenRefines ==
  ASSUME IInv, CreateHangs \/ CheckFiles \/ UseCert \/ UseKey \/ Bind
  PROVE  [Serving!Next]_(Serving!vars)
<1>1. /\ config' = config /\ pool' = pool
      /\ \/ at = "pool" /\ at' = "hung"
         \/ at = "context" /\ at' \in {"use_cert", "bind"}
         \/ at = "use_cert" /\ at' = "use_key"
         \/ at = "use_key" /\ at' = "bind"
         \/ at = "bind" /\ at' = "listening"
  BY DEF CreateHangs, CheckFiles, UseCert, UseKey, Use, Bind, Goto, process
<1>2. Up /\ Up'
  BY <1>1 DEF Up, Loading
<1>3. /\ Process = "up" /\ Process' = "up" /\ Returned' = Returned /\ HasPool' = HasPool
  BY <1>1, <1>2 DEF Process, Returned, HasPool
<1>4. CASE at = "bind" /\ at' = "listening"
  <2>1. Stage = "listen" /\ Stage' = "accept"
    BY <1>4 DEF Stage, Loading
  <2>2. Serving!Listen
    BY <2>1, <1>3 DEF Serving!Listen, Serving!clients, Serving!serving, Serving!pool
  <2>3. QED  BY <2>2 DEF Serving!Next, Serving!MainStep
<1>5. CASE ~ (at = "bind" /\ at' = "listening")
  <2>1. Stage' = Stage
    BY <1>1, <1>5 DEF Stage, Loading
  <2>2. QED  BY <2>1, <1>3, Unnoticed
<1>6. QED  BY <1>4, <1>5

\* A start that fails after the configuration is an exit of Server's.
LEMMA ExitRefines ==
  ASSUME IInv, Exit, at \in {"isolate", "context", "use_cert", "use_key", "bind"}
  PROVE  [Serving!Next]_(Serving!vars)
<1>1. CASE at = "isolate"
  <2>1. at \in Loading /\ at' \in Loading /\ previous' = previous
    BY <1>1 DEF Exit, Loading
  <2>2. QED  BY <2>1, LoadingRefines
<1>2. CASE at # "isolate"
  <2>1. /\ at \notin Loading /\ at' = "down" /\ at' \in Loading
        /\ previous' = [https |-> config.ENABLE_HTTPS,
                        threadpool |-> config.THREADPOOL_ENABLED]
    BY <1>2 DEF Exit, Loading
  <2>2. /\ Up /\ ~ Up' /\ Stage = "listen" /\ Stage' = "pool"
        /\ Process = "up" /\ Process' = "down" /\ ~ HasPool' /\ Returned' = Returned
    BY <1>2, <2>1 DEF Up, Stage, Process, HasPool, Returned
  <2>3. Serving!ListenFails
    BY <2>2 DEF Serving!ListenFails, Serving!Exits, Serving!Dies, Serving!clients
  <2>4. QED  BY <2>3 DEF Serving!Next, Serving!MainStep
<1>3. QED  BY <1>1, <1>2

\* The start with its files, limits, ports and failures is a start of Server, which
\* knows none of them: what Server promises of main holds for what load_config,
\* isolation_init and main do.
THEOREM StartImplementsServer == Spec => ImplementsServer
<1>1. Init => Serving!Init
  <2> SUFFICES ASSUME Init PROVE Serving!Init
    OBVIOUS
  <2>1. /\ Process = "down" /\ Stage = "pool" /\ ~ HasPool
        /\ Returned = [https |-> FALSE, threadpool |-> FALSE]
    BY DEF Init, Process, Stage, HasPool, Returned, Up, Loading
  <2>2. Returned \in [https : BOOLEAN, threadpool : BOOLEAN]
    BY <2>1
  <2>3. QED  BY <2>1, <2>2 DEF Serving!Init, Serving!Pool!Init
<1>2. IInv /\ [Next]_vars => [Serving!Next]_(Serving!vars)
  <2> SUFFICES ASSUME IInv, [Next]_vars PROVE [Serving!Next]_(Serving!vars)
    OBVIOUS
  <2>1. CASE Exec \/ OpenFails \/ ReadPiece \/ EndOfFile \/ CheckCert \/ CheckKey \/ CheckPort
    <3>1. at \in Loading /\ at' \in Loading /\ previous' = previous
      BY <2>1 DEF Exec, OpenFails, ReadPiece, EndOfFile, CheckCert, CheckKey, CheckPort,
        Goto, Loading
    <3>2. QED  BY <3>1, LoadingRefines
  <2>2. CASE Isolate \/ CreatePool \/ CreateFails \/ NoPool
    BY <2>2, IsolateRefines, PoolRefines
  <2>3. CASE CreateHangs \/ CheckFiles \/ UseCert \/ UseKey \/ Bind
    BY <2>3, ListenRefines
  <2>4. CASE IsolateFails \/ FilesGone \/ UseCertFails \/ UseKeyFails \/ BindFails
    <3>1. Exit /\ at \in {"isolate", "context", "use_cert", "use_key", "bind"}
      BY <2>4 DEF IsolateFails, FilesGone, UseCertFails, UseKeyFails, UseFails, BindFails
    <3>2. QED  BY <3>1, ExitRefines
  <2>5. CASE Change \/ UNCHANGED vars
    <3>1. at' = at /\ config' = config /\ pool' = pool /\ previous' = previous
      BY <2>5 DEF Change, vars, process
    <3>2. QED  BY <3>1, Unnoticed DEF Up, Process, Returned, Stage, HasPool
  <2>6. QED  BY <2>1, <2>2, <2>3, <2>4, <2>5 DEF Next, Main
<1>3. QED
  BY <1>1, <1>2, StartupInvariant, PTL DEF Spec, ImplementsServer, Serving!Spec
=============================================================================
