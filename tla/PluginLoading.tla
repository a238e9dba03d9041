---------------------------- MODULE PluginLoading ----------------------------
(***************************************************************************)
(* Loading of plugins.  A plugin made by makePlugin is a TupleMap of a     *)
(* Library, a section of configuration and a section of members, which are *)
(* pointers into the library.  loadPluginFromFile and loadPluginFromString *)
(* parse a document into it, section after section.  Each plugin is loaded *)
(* by one thread at a time, different plugins by different threads; what   *)
(* they share is the libraries, which the dynamic linker maps once, keeps  *)
(* mapped while a plugin holds them, and may map elsewhere the next time.  *)
(*                                                                         *)
(* The configuration is a TupleMap of NumSettings settings, each of a type *)
(* that is read as a whole; Parser is about the others.  The members are   *)
(* NumPointers pointers and then one list of pointers.  Of an exception    *)
(* only that it is thrown is kept: Parser is about which one it is.        *)
(***************************************************************************)
EXTENDS Integers, Sequences

CONSTANTS
  Plugins,      \* plugin objects, each loaded by one thread at a time
  NumSettings,  \* members of the configuration
  MayBeLeftOut, \* those of types that a document may leave out, as in Parser
  NumPointers,  \* members that are one pointer, makeVariable or makeFunction
  Libraries,    \* shared libraries
  Program,      \* the program itself, as a library
  Symbols,
  Exports,      \* Exports[l]: the symbols that the library l exports
  Directories,
  Names,        \* paths of libraries as documents give them, "." among them
  LibraryFile,  \* LibraryFile[d][n]: what is found for n in the directory d, or None
  Values,       \* of settings
  Documents,    \* what may be given to loadPluginFromString
  Files,        \* what may be given to loadPluginFromFile: see FilesAssumption
  WorkingDirectory, RootDirectory, InitialValue,
  None, Null, Absent, Mistyped, NoDocument, NoDirectory,  \* told apart from all others
  MaxEra        \* bound: no load starts once a library has been unmapped so often

SettingTags == 1..NumSettings
PointerTags == 1..NumPointers

Entries == Symbols \cup {Null, Mistyped}

\* What a document says, of each member of the plugin.
DocumentType ==
  [object : BOOLEAN,
   shared_library : Names \cup {Null, Absent, Mistyped},
   configuration : [SettingTags -> Values \cup {Absent, Mistyped}] \cup {Absent, Mistyped},
   members : [PointerTags -> Entries \cup {Absent}] \cup {Absent, Mistyped},
   list : Seq(Entries) \cup {Absent, Mistyped}]

ASSUME DocumentsAssumption ==
  /\ NumSettings \in Nat /\ NumPointers \in Nat
  /\ MayBeLeftOut \subseteq SettingTags
  /\ Documents \subseteq DocumentType
  /\ NoDocument \notin Documents
  /\ {Absent, Mistyped} \cap Values = {}

\* A file whose path is only a name has no parent directory in it.
ASSUME FilesAssumption ==
  Files \subseteq [state : {"missing", "irregular", "locked", "readable"},
                   parent : Directories \cup {NoDirectory}, document : Documents]

ASSUME LibrariesAssumption ==
  /\ Exports \in [Libraries \cup {Program} -> SUBSET Symbols]
  /\ LibraryFile \in [Directories -> [Names -> Libraries \cup {None}]]
  /\ Program \notin Libraries
  /\ None \notin Libraries \cup {Program}
  /\ {WorkingDirectory, RootDirectory} \subseteq Directories
  /\ InitialValue \in Values

VARIABLES
  library,     \* library_m: the library that the plugin holds, or None
  configPath,  \* config_path_m
  config,      \* the settings
  pointers,    \* the members that are one pointer
  list,        \* the member that is a list of pointers
  pc,          \* where the load of the plugin is, "idle" when none is under way
  next,        \* the pointer to be parsed next
  document,    \* what is being parsed into the plugin, or was when that succeeded
  era,         \* era[l]: how often the linker has unmapped l
  before       \* history: what the plugin had when the load under way began

vars == <<library, configPath, config, pointers, list, pc, next, document, era, before>>

-----------------------------------------------------------------------------
(* Libraries and pointers into them.                                        *)

Pointer(l, e, symbol) == [library |-> l, era |-> e, symbol |-> symbol]

Init ==
  /\ library = [p \in Plugins |-> None]
  /\ configPath = [p \in Plugins |-> WorkingDirectory]
  /\ config = [p \in Plugins |-> [k \in SettingTags |-> InitialValue]]
  /\ pointers = [p \in Plugins |-> [k \in PointerTags |-> Null]]
  /\ list = [p \in Plugins |-> <<>>]
  /\ pc = [p \in Plugins |-> "idle"]
  /\ next = [p \in Plugins |-> 1]
  /\ document = [p \in Plugins |-> NoDocument]
  /\ era = [l \in Libraries \cup {Program} |-> 0]
  /\ before = [p \in Plugins |-> None]

SharedWithOthers(p, l) == \E q \in Plugins \ {p} : library[q] = l

\* Slip: a library that is held is not let go of for another one.
HoldOnce(p, l) ==
  /\ library' = [library EXCEPT ![p] = IF @ = None THEN l ELSE @]
  /\ UNCHANGED era

\* shared_library::load and the destructor: the library that was held is let go of first.
Hold(p, l) ==
  /\ library' = [library EXCEPT ![p] = l]
  /\ era' = IF library[p] \in Libraries /\ ~SharedWithOthers(p, library[p])
            THEN [era EXCEPT ![library[p]] = @ + 1] ELSE era

-----------------------------------------------------------------------------
(* The end of a step of the load.                                           *)

Proceed(p, section) ==
  /\ pc' = [pc EXCEPT ![p] = section]
  /\ UNCHANGED <<next, document, before>>

Return(p) ==
  /\ pc' = [pc EXCEPT ![p] = "idle"]
  /\ next' = [next EXCEPT ![p] = 1]
  /\ before' = [before EXCEPT ![p] = None]
  /\ UNCHANGED document

Throw(p) ==
  /\ pc' = [pc EXCEPT ![p] = "idle"]
  /\ next' = [next EXCEPT ![p] = 1]
  /\ document' = [document EXCEPT ![p] = NoDocument]
  /\ before' = [before EXCEPT ![p] = None]

Bounded == \A l \in Libraries : era[l] < MaxEra

\* A document that is not well formed is parsed as null, which is not an object.
Start(p, d) ==
  \/ /\ d.object
     /\ pc' = [pc EXCEPT ![p] = "library"]
     /\ document' = [document EXCEPT ![p] = d]
     /\ before' = [before EXCEPT ![p] =
                     [config |-> config[p], pointers |-> pointers[p], list |-> list[p]]]
     /\ UNCHANGED next
  \/ /\ ~d.object
     /\ Throw(p)

LoadPluginFromString(p, d) ==
  /\ pc[p] = "idle" /\ Bounded
  /\ Start(p, d)
  /\ UNCHANGED <<library, configPath, config, pointers, list, era>>

LoadPluginFromFile(p, f) ==
  /\ pc[p] = "idle"
  /\ \/ /\ f.state # "readable"
        /\ Throw(p)
        /\ UNCHANGED configPath
     \/ /\ f.state = "readable" /\ Bounded
        /\ configPath' = [configPath EXCEPT ![p] = f.parent]
        /\ Start(p, f.document)
  /\ UNCHANGED <<library, config, pointers, list, era>>

-----------------------------------------------------------------------------
(* The sections of the document.                                            *)

\* The path of the library starts with config_path_m and "/".
SearchedDirectory(path) == IF path = NoDirectory THEN RootDirectory ELSE path

\* For a path, "." too, what is found in that directory.
LibraryNamed(p) ==
  IF document[p].shared_library = Null THEN Program
  ELSE LibraryFile[SearchedDirectory(configPath[p])][document[p].shared_library]

ParseLibrary(p) ==
  /\ pc[p] = "library"
  /\ \/ /\ document[p].shared_library \in {Absent, Mistyped}
        /\ Throw(p)
        /\ UNCHANGED <<library, era>>
     \/ /\ document[p].shared_library \notin {Absent, Mistyped}
        /\ Hold(p, LibraryNamed(p))
        /\ IF LibraryNamed(p) # None THEN Proceed(p, "configuration") ELSE Throw(p)
  /\ UNCHANGED <<configPath, config, pointers, list>>

\* Slip: a setting that cannot be read does not keep those after it from being read.
ParseConfigurationToTheEnd(p) ==
  LET given == document[p].configuration
      Returns(k) == given[k] \in Values \/ (given[k] = Absent /\ k \in MayBeLeftOut)
  IN /\ pc[p] = "configuration"
     /\ given \notin {Absent, Mistyped}
     /\ config' = [config EXCEPT ![p] =
                     [k \in SettingTags |-> IF given[k] \in Values THEN given[k] ELSE @[k]]]
     /\ \/ (\A k \in SettingTags : Returns(k)) /\ Proceed(p, "members")
        \/ (\E k \in SettingTags : ~Returns(k)) /\ Throw(p)
     /\ UNCHANGED <<library, configPath, pointers, list, era>>

\* The settings are read in order.  One that the document leaves out stays what it was;
\* one that is mistyped may have been read in part.
ParseConfiguration(p) ==
  LET given == document[p].configuration
      Returns(k) == given[k] \in Values \/ (given[k] = Absent /\ k \in MayBeLeftOut)
      Good(k) == \A j \in 1..k : Returns(j)
  IN /\ pc[p] = "configuration"
     /\ \/ /\ given \in {Absent, Mistyped}
           /\ Throw(p)
           /\ UNCHANGED config
        \/ /\ given \notin {Absent, Mistyped}
           /\ \E part \in Values :
                config' = [config EXCEPT ![p] =
                             [k \in SettingTags |->
                                IF ~Good(k - 1) \/ given[k] = Absent THEN @[k]
                                ELSE IF given[k] = Mistyped THEN part ELSE given[k]]]
           /\ \/ Good(NumSettings) /\ Proceed(p, "members")
              \/ ~Good(NumSettings) /\ Throw(p)
     /\ UNCHANGED <<library, configPath, pointers, list, era>>

\* The section of members is entered with the first of them.
Section(p) == document[p].members

ParseMembers(p) ==
  /\ pc[p] = "members"
  /\ \/ Section(p) \in {Absent, Mistyped} /\ Throw(p)
     \/ Section(p) \notin {Absent, Mistyped} /\ Proceed(p, "pointers")
  /\ UNCHANGED <<library, configPath, config, pointers, list, era>>

\* Slip: what is not a string is taken for one.
ResolvesUnchecked(p, entry) == entry \in {Null, Mistyped} \/ entry \in Exports[library[p]]

\* Whether parse of an entry returns, and what the pointer is then.
Resolves(p, entry) == entry = Null \/ entry \in Exports[library[p]]

Resolved(p, entry) ==
  IF entry = Null THEN Null ELSE Pointer(library[p], era[library[p]], entry)

\* Slip: a key that is absent is looked for again.
ParsePointerStuck(p) ==
  /\ pc[p] = "pointers" /\ next[p] \in PointerTags
  /\ LET entry == Section(p)[next[p]]
     IN \/ /\ entry # Absent /\ Resolves(p, entry)
           /\ pointers' = [pointers EXCEPT ![p][next[p]] = Resolved(p, entry)]
           /\ next' = [next EXCEPT ![p] = @ + 1]
           /\ UNCHANGED <<pc, document, before>>
        \/ /\ entry # Absent /\ ~Resolves(p, entry)
           /\ Throw(p)
           /\ UNCHANGED pointers
  /\ UNCHANGED <<library, configPath, config, list, era>>

\* A pointer whose key is absent stays what it was.
ParsePointer(p) ==
  /\ pc[p] = "pointers" /\ next[p] \in PointerTags
  /\ LET entry == Section(p)[next[p]]
     IN \/ /\ entry = Absent
           /\ next' = [next EXCEPT ![p] = @ + 1]
           /\ UNCHANGED <<pointers, pc, document, before>>
        \/ /\ entry # Absent /\ Resolves(p, entry)
           /\ pointers' = [pointers EXCEPT ![p][next[p]] = Resolved(p, entry)]
           /\ next' = [next EXCEPT ![p] = @ + 1]
           /\ UNCHANGED <<pc, document, before>>
        \/ /\ entry # Absent /\ ~Resolves(p, entry)
           /\ Throw(p)
           /\ UNCHANGED pointers
  /\ UNCHANGED <<library, configPath, config, list, era>>

\* Slip: the list is resized and not cleared.
ParseListKept(p) ==
  LET entries == document[p].list
      Good(i) == \A j \in 1..i : Resolves(p, entries[j])
  IN /\ pc[p] = "pointers" /\ next[p] \notin PointerTags
     /\ entries \notin {Absent, Mistyped}
     /\ list' = [list EXCEPT ![p] =
                   [i \in DOMAIN entries |-> IF Good(i) THEN Resolved(p, entries[i])
                                             ELSE IF i \in DOMAIN list[p] THEN list[p][i] ELSE Null]]
     /\ \/ Good(Len(entries)) /\ Return(p)
        \/ ~Good(Len(entries)) /\ Throw(p)
     /\ UNCHANGED <<library, configPath, config, pointers, era>>

\* The list is cleared and resized with null pointers, then its elements are parsed.
ParseList(p) ==
  LET entries == document[p].list
      Good(i) == \A j \in 1..i : Resolves(p, entries[j])
  IN /\ pc[p] = "pointers" /\ next[p] \notin PointerTags
     /\ \/ /\ entries \in {Absent, Mistyped}
           /\ Throw(p)
           /\ UNCHANGED list
        \/ /\ entries \notin {Absent, Mistyped}
           /\ list' = [list EXCEPT ![p] =
                         [i \in DOMAIN entries |-> IF Good(i) THEN Resolved(p, entries[i]) ELSE Null]]
           /\ \/ Good(Len(entries)) /\ Return(p)
              \/ ~Good(Len(entries)) /\ Throw(p)
     /\ UNCHANGED <<library, configPath, config, pointers, era>>

\* The plugin is destroyed, and the next one is made by makePlugin.
Renew(p) ==
  /\ pc[p] = "idle" /\ Bounded
  /\ Hold(p, None)
  /\ configPath' = [configPath EXCEPT ![p] = WorkingDirectory]
  /\ config' = [config EXCEPT ![p] = [k \in SettingTags |-> InitialValue]]
  /\ pointers' = [pointers EXCEPT ![p] = [k \in PointerTags |-> Null]]
  /\ list' = [list EXCEPT ![p] = <<>>]
  /\ document' = [document EXCEPT ![p] = NoDocument]
  /\ UNCHANGED <<pc, next, before>>

Step(p) ==
  \/ ParseLibrary(p) \/ ParseConfiguration(p) \/ ParseMembers(p)
  \/ ParsePointer(p) \/ ParseList(p)

Next ==
  \E p \in Plugins :
    \/ \E d \in Documents : LoadPluginFromString(p, d)
    \/ \E f \in Files : LoadPluginFromFile(p, f)
    \/ Step(p)
    \/ Renew(p)

Spec == Init /\ [][Next]_vars

\* A thread that is loading a plugin goes on.
FairSpec == Spec /\ \A p \in Plugins : WF_vars(Step(p))

-----------------------------------------------------------------------------
(* Properties.                                                              *)

PointerType ==
  [library : Libraries \cup {Program}, era : Nat, symbol : Symbols] \cup {Null}

BeforeType ==
  [config : [SettingTags -> Values], pointers : [PointerTags -> PointerType], list : Seq(PointerType)]

\* Type invariant.
PluginTypeOK ==
  /\ library \in [Plugins -> Libraries \cup {Program, None}]
  /\ configPath \in [Plugins -> Directories \cup {NoDirectory}]
  /\ config \in [Plugins -> [SettingTags -> Values]]
  /\ pointers \in [Plugins -> [PointerTags -> PointerType]]
  /\ list \in [Plugins -> Seq(PointerType)]
  /\ pc \in [Plugins -> {"idle", "library", "configuration", "members", "pointers"}]
  /\ next \in [Plugins -> 1..(NumPointers + 1)]
  /\ document \in [Plugins -> Documents \cup {NoDocument}]
  /\ era \in [Libraries \cup {Program} -> Nat]
  /\ before \in [Plugins -> BeforeType \cup {None}]

Loaded(p) == pc[p] = "idle" /\ document[p] # NoDocument

Given(p, k) == document[p].configuration[k]

Callable(pointer) ==
  pointer # Null => /\ pointer.symbol \in Exports[pointer.library]
                    /\ pointer.library # Program => \E q \in Plugins : library[q] = pointer.library
                    /\ pointer.era = era[pointer.library]

\* A load that returned has installed its document and no other: the library
\* that the document names, under config_path_m, every setting that it gives,
\* and for every member that it names a pointer into that library as it is mapped
\* now, whatever other plugins have loaded, reloaded or let go of since.  Only
\* pointers and settings that may be left out, and are, can be of an earlier load.
Installed ==
  \A p \in Plugins : Loaded(p) =>
    /\ library[p] = LibraryNamed(p) /\ library[p] # None
    /\ \A k \in SettingTags :
         IF Given(p, k) = Absent THEN k \in MayBeLeftOut ELSE config[p][k] = Given(p, k)
    /\ \A k \in PointerTags : Section(p)[k] # Absent =>
         pointers[p][k] = Resolved(p, Section(p)[k]) /\ Callable(pointers[p][k])
    /\ DOMAIN list[p] = DOMAIN document[p].list
    /\ \A i \in DOMAIN list[p] :
         list[p][i] = Resolved(p, document[p].list[i]) /\ Callable(list[p][i])

OfOneLibrary(ps) ==
  \A i, j \in DOMAIN ps : ps[i] # Null /\ ps[j] # Null =>
    ps[i].library = ps[j].library /\ ps[i].era = ps[j].era

\* A list of functions never mixes two libraries, nor two mappings of the same
\* one, also when loads fail half way through it.
ListOfOneLibrary == \A p \in Plugins : OfOneLibrary(list[p])

\* What has been read of a document at the end of a step of the load: a member that
\* the document leaves out, and may leave out, is what it was when the load began.
SettingRead(p, k) ==
  IF Given(p, k) = Absent THEN k \in MayBeLeftOut /\ config'[p][k] = before[p].config[k]
  ELSE config'[p][k] = Given(p, k)

PointerRead(p, k) ==
  pointers'[p][k] = IF Section(p)[k] = Absent THEN before[p].pointers[k]
                    ELSE Resolved(p, Section(p)[k])

ListRead(p) ==
  /\ DOMAIN list'[p] = DOMAIN document[p].list
  /\ \A i \in DOMAIN list'[p] : list'[p][i] = Resolved(p, document[p].list[i])

InOrder ==
  \A p \in Plugins : pc[p] # "idle" =>
    LET Settings == \A k \in SettingTags : SettingRead(p, k)
        Pointers == \A k \in PointerTags : PointerRead(p, k)
    IN /\ \A k \in SettingTags : config'[p][k] # before[p].config[k] =>
            /\ library[p] = LibraryNamed(p)
            /\ \A j \in 1..(k - 1) : SettingRead(p, j)
       /\ \A k \in PointerTags : pointers'[p][k] # before[p].pointers[k] =>
            Settings /\ \A j \in 1..(k - 1) : PointerRead(p, j)
       /\ list'[p] # before[p].list => Settings /\ Pointers
       /\ pc'[p] = "idle" /\ document'[p] # NoDocument => Settings /\ Pointers /\ ListRead(p)

\* A load that throws, wherever it does, leaves a plugin that is the new one up to one
\* member and the old one after it: no setting, pointer or list is changed before all
\* that precedes it in the document is in place, and what the document leaves out is
\* as it was before the load, also while other plugins are loaded or destroyed.
ChangedInOrder == [][InOrder]_vars

\* Every load returns or throws.
LoadsEnd == \A p \in Plugins : pc[p] # "idle" ~> pc[p] = "idle"
=============================================================================
