------------------------- MODULE PluginLoadingProofs -------------------------
(***************************************************************************)
(* For any plugins, libraries and documents: a load that returned has      *)
(* installed its document, one that throws has changed nothing after the   *)
(* member at fault, and lists do not mix libraries.                        *)
(*                                                                         *)
(* Installed speaks of loads that returned.  To be inductive it must also  *)
(* say how far a load has got: after each section what that section of the *)
(* document has put in place, and what is still as it was when the load    *)
(* began (Got below).  What one plugin has survives the steps of the       *)
(* others because a library is not unmapped, and so its era does not       *)
(* change, while a plugin holds it (HoldUntouched).                        *)
(***************************************************************************)
EXTENDS PluginLoading, TLAPS

\* The state of one plugin.
Row(p) ==
  <<library[p], configPath[p], config[p], pointers[p], list[p], pc[p], next[p], document[p],
    before[p]>>

\* A load that has got to a section, or has returned.
At(p, sections) == pc[p] \in sections \/ Loaded(p)

GotLibrary(p) ==
  At(p, {"configuration", "members", "pointers"}) =>
    /\ document[p].shared_library \in Names \cup {Null}
    /\ library[p] = LibraryNamed(p) /\ library[p] # None

GotSetting(p, k) ==
  IF Given(p, k) = Absent THEN k \in MayBeLeftOut ELSE config[p][k] = Given(p, k)

GotConfiguration(p) ==
  At(p, {"members", "pointers"}) => \A k \in SettingTags : GotSetting(p, k)

GotMembers(p) ==
  At(p, {"pointers"}) => Section(p) \in [PointerTags -> Entries \cup {Absent}]

GotPointer(p, k) ==
  Section(p)[k] # Absent =>
    Resolves(p, Section(p)[k]) /\ pointers[p][k] = Resolved(p, Section(p)[k])

GotPointers(p) ==
  /\ pc[p] = "pointers" => \A k \in PointerTags : k < next[p] => GotPointer(p, k)
  /\ Loaded(p) => \A k \in PointerTags : GotPointer(p, k)

GotList(p) ==
  Loaded(p) =>
    /\ document[p].list \in Seq(Entries)
    /\ DOMAIN list[p] = DOMAIN document[p].list
    /\ \A i \in DOMAIN list[p] :
         /\ Resolves(p, document[p].list[i])
         /\ list[p][i] = Resolved(p, document[p].list[i])

\* What the load has not come to yet, and what the document leaves out.
GotBefore(p) ==
  /\ pc[p] \in {"library", "configuration"} => config[p] = before[p].config
  /\ pc[p] \in {"members", "pointers"} =>
       \A k \in SettingTags : Given(p, k) = Absent => config[p][k] = before[p].config[k]
  /\ pc[p] \in {"library", "configuration", "members"} => pointers[p] = before[p].pointers
  /\ pc[p] = "pointers" =>
       \A k \in PointerTags : k >= next[p] \/ Section(p)[k] = Absent =>
         pointers[p][k] = before[p].pointers[k]
  /\ pc[p] # "idle" => list[p] = before[p].list

Got(p) ==
  /\ pc[p] # "idle" => document[p] \in Documents
  /\ pc[p] # "pointers" => next[p] = 1
  /\ GotLibrary(p) /\ GotConfiguration(p) /\ GotMembers(p) /\ GotPointers(p) /\ GotList(p)
  /\ GotBefore(p)

Inv == PluginTypeOK /\ \A p \in Plugins : Got(p)

Untouched(q) ==
  /\ Row(q)' = Row(q)
  /\ library[q] # None => era'[library[q]] = era[library[q]]

-----------------------------------------------------------------------------
\* Letting go of a library does not unmap those that others hold.
LEMMA HoldUntouched ==
  ASSUME PluginTypeOK, NEW p \in Plugins, NEW l \in Libraries \cup {Program, None}, Hold(p, l)
  PROVE  /\ library' \in [Plugins -> Libraries \cup {Program, None}]
         /\ era' \in [Libraries \cup {Program} -> Nat]
         /\ library'[p] = l
         /\ \A q \in Plugins \ {p} : /\ library'[q] = library[q]
                                     /\ library[q] # None => era'[library[q]] = era[library[q]]
<1>1. library' \in [Plugins -> Libraries \cup {Program, None}] /\ library'[p] = l
  BY DEF Hold, PluginTypeOK
<1>2. era' \in [Libraries \cup {Program} -> Nat]
  BY DEF Hold, PluginTypeOK
<1>3. ASSUME NEW q \in Plugins \ {p}
      PROVE  library'[q] = library[q] /\ (library[q] # None => era'[library[q]] = era[library[q]])
  <2>1. library'[q] = library[q]
    BY DEF Hold, PluginTypeOK
  <2>2. CASE library[p] \in Libraries /\ ~SharedWithOthers(p, library[p])
    <3>1. library[q] # library[p]
      BY <2>2 DEF SharedWithOthers
    <3>. QED  BY <2>1, <2>2, <3>1 DEF Hold, PluginTypeOK
  <2>3. CASE ~(library[p] \in Libraries /\ ~SharedWithOthers(p, library[p]))
    BY <2>1, <2>3 DEF Hold
  <2>. QED  BY <2>2, <2>3
<1>. QED  BY <1>1, <1>2, <1>3

\* What the document found in place stays so while the plugin is untouched.
LEMMA UntouchedGot ==
  ASSUME NEW q \in Plugins, PluginTypeOK, Got(q), Untouched(q)
  PROVE  Got(q)'
<1>. USE DEF Untouched, Row
<1>1. Loaded(q)' <=> Loaded(q)
  BY DEF Loaded
<1>2. LibraryNamed(q)' = LibraryNamed(q) /\ Section(q)' = Section(q)
  BY DEF LibraryNamed, Section
<1>3. \A entry : Resolves(q, entry)' <=> Resolves(q, entry)
  BY DEF Resolves
<1>4. library[q] # None => \A entry : Resolved(q, entry)' = Resolved(q, entry)
  BY DEF Resolved
<1>5. GotLibrary(q)' /\ GotConfiguration(q)' /\ GotMembers(q)'
  BY <1>1, <1>2 DEF Got, GotLibrary, GotConfiguration, GotSetting, Given, GotMembers, At
<1>6. At(q, {"pointers"}) => library[q] # None
  BY DEF Got, GotLibrary, At
<1>7. GotPointers(q)'
  BY <1>1, <1>2, <1>3, <1>4, <1>6 DEF Got, GotPointers, GotPointer, At
<1>8. GotList(q)'
  BY <1>1, <1>3, <1>4, <1>6 DEF Got, GotList, At
<1>9. GotBefore(q)'
  BY <1>2 DEF Got, GotBefore, Given
<1>. QED  BY <1>5, <1>7, <1>8, <1>9 DEF Got

LEMMA NamedLibrary ==
  ASSUME PluginTypeOK, NEW p \in Plugins, document[p] \in Documents,
         document[p].shared_library \notin {Absent, Mistyped}
  PROVE  /\ document[p].shared_library \in Names \cup {Null}
         /\ LibraryNamed(p) \in Libraries \cup {Program, None}
<1>1. document[p].shared_library \in Names \cup {Null}
  BY DocumentsAssumption DEF DocumentType
<1>2. SearchedDirectory(configPath[p]) \in Directories
  BY LibrariesAssumption DEF PluginTypeOK, SearchedDirectory
<1>. QED  BY <1>1, <1>2, LibrariesAssumption DEF LibraryNamed

\* A step of one plugin touches no other plugin.
LEMMA OthersUntouched ==
  ASSUME PluginTypeOK, NEW p \in Plugins, Got(p), NEW q \in Plugins \ {p},
         \/ \E d \in Documents : LoadPluginFromString(p, d)
         \/ \E f \in Files : LoadPluginFromFile(p, f)
         \/ Step(p)
         \/ Renew(p)
  PROVE  Untouched(q)
<1>. USE DEF PluginTypeOK, Untouched, Row
<1>1. ASSUME NEW d \in Documents, LoadPluginFromString(p, d) PROVE Untouched(q)
  BY <1>1 DEF LoadPluginFromString, Start, Throw
<1>2. ASSUME NEW f \in Files, LoadPluginFromFile(p, f) PROVE Untouched(q)
  BY <1>2 DEF LoadPluginFromFile, Start, Throw
<1>3. CASE ParseLibrary(p)
  <2>1. /\ Row(q)' = <<library'[q], configPath[q], config[q], pointers[q], list[q], pc[q],
                       next[q], document[q], before[q]>>
    BY <1>3 DEF ParseLibrary, Proceed, Throw
  <2>2. library'[q] = library[q] /\ (library[q] # None => era'[library[q]] = era[library[q]])
    <3>1. CASE UNCHANGED <<library, era>>
      BY <3>1
    <3>2. CASE /\ document[p].shared_library \notin {Absent, Mistyped}
               /\ Hold(p, LibraryNamed(p))
      <4>1. document[p] \in Documents
        BY <1>3 DEF Got, ParseLibrary
      <4>. QED  BY <3>2, <4>1, NamedLibrary, HoldUntouched
    <3>. QED  BY <1>3, <3>1, <3>2 DEF ParseLibrary
  <2>. QED  BY <2>1, <2>2
<1>4. CASE ParseConfiguration(p)
  BY <1>4 DEF ParseConfiguration, Proceed, Throw
<1>5. CASE ParseMembers(p)
  BY <1>5 DEF ParseMembers, Proceed, Throw
<1>6. CASE ParsePointer(p)
  BY <1>6 DEF ParsePointer, Throw
<1>7. CASE ParseList(p)
  BY <1>7 DEF ParseList, Return, Throw
<1>8. CASE Renew(p)
  <2>1. library'[q] = library[q] /\ (library[q] # None => era'[library[q]] = era[library[q]])
    BY <1>8, HoldUntouched DEF Renew
  <2>. QED  BY <1>8, <2>1 DEF Renew
<1>. QED  BY <1>1, <1>2, <1>3, <1>4, <1>5, <1>6, <1>7, <1>8 DEF Step

-----------------------------------------------------------------------------
LEMMA InitInv == Init => Inv
  BY DocumentsAssumption, LibrariesAssumption
  DEF Init, Inv, PluginTypeOK, PointerType, PointerTags, Got, GotLibrary,
      GotConfiguration, GotMembers, GotPointers, GotList, GotBefore, At, Loaded

\* A load that throws claims nothing.
LEMMA ThrowGot ==
  ASSUME PluginTypeOK, NEW p \in Plugins, Throw(p)
  PROVE  /\ pc' \in [Plugins -> {"idle", "library", "configuration", "members", "pointers"}]
         /\ next' \in [Plugins -> 1..(NumPointers + 1)]
         /\ document' \in [Plugins -> Documents \cup {NoDocument}]
         /\ before' \in [Plugins -> BeforeType \cup {None}]
         /\ Got(p)'
<1>1. /\ pc' \in [Plugins -> {"idle", "library", "configuration", "members", "pointers"}]
      /\ next' \in [Plugins -> 1..(NumPointers + 1)]
      /\ document' \in [Plugins -> Documents \cup {NoDocument}]
      /\ before' \in [Plugins -> BeforeType \cup {None}]
  BY DocumentsAssumption DEF PluginTypeOK, Throw
<1>2. pc'[p] = "idle" /\ document'[p] = NoDocument /\ next'[p] = 1
  BY DEF PluginTypeOK, Throw
<1>. QED
  BY <1>1, <1>2
  DEF Got, GotLibrary, GotConfiguration, GotMembers, GotPointers, GotList, GotBefore, At, Loaded

LEMMA StartInv ==
  ASSUME PluginTypeOK, NEW p \in Plugins, Got(p), pc[p] = "idle", NEW d \in Documents, Start(p, d),
         UNCHANGED <<config, pointers, list>>
  PROVE  /\ pc' \in [Plugins -> {"idle", "library", "configuration", "members", "pointers"}]
         /\ next' \in [Plugins -> 1..(NumPointers + 1)]
         /\ document' \in [Plugins -> Documents \cup {NoDocument}]
         /\ before' \in [Plugins -> BeforeType \cup {None}]
         /\ Got(p)'
<1> DEFINE now == [config |-> config[p], pointers |-> pointers[p], list |-> list[p]]
<1>1. CASE d.object /\ Start(p, d) /\ pc' = [pc EXCEPT ![p] = "library"]
             /\ document' = [document EXCEPT ![p] = d] /\ next' = next
             /\ before' = [before EXCEPT ![p] = now]
  <2>1. now \in BeforeType
    BY DEF PluginTypeOK, BeforeType
  <2>2. before' \in [Plugins -> BeforeType \cup {None}] /\ before'[p] = now
    BY <1>1, <2>1 DEF PluginTypeOK
  <2>3. /\ pc' \in [Plugins -> {"idle", "library", "configuration", "members", "pointers"}]
        /\ next' \in [Plugins -> 1..(NumPointers + 1)]
        /\ document' \in [Plugins -> Documents \cup {NoDocument}]
        /\ pc'[p] = "library" /\ document'[p] = d /\ next'[p] = 1
    BY <1>1 DEF PluginTypeOK, Got
  <2>4. GotBefore(p)'
    BY <2>2, <2>3 DEF GotBefore
  <2>. QED
    BY <2>2, <2>3, <2>4
    DEF Got, GotLibrary, GotConfiguration, GotMembers, GotPointers, GotList, At, Loaded
<1>2. CASE Throw(p)
  BY <1>2, ThrowGot
<1>. QED  BY <1>1, <1>2 DEF Start

LEMMA StringInv ==
  ASSUME PluginTypeOK, NEW p \in Plugins, Got(p), NEW d \in Documents, LoadPluginFromString(p, d)
  PROVE  PluginTypeOK' /\ Got(p)'
  BY StartInv DEF LoadPluginFromString, PluginTypeOK

LEMMA FileInv ==
  ASSUME PluginTypeOK, NEW p \in Plugins, Got(p), NEW f \in Files, LoadPluginFromFile(p, f)
  PROVE  PluginTypeOK' /\ Got(p)'
<1>0. f.parent \in Directories \cup {NoDirectory} /\ f.document \in Documents
  BY FilesAssumption
<1>1. configPath' \in [Plugins -> Directories \cup {NoDirectory}]
  BY <1>0 DEF LoadPluginFromFile, PluginTypeOK
<1>2. CASE Throw(p)
  BY <1>1, <1>2, ThrowGot DEF LoadPluginFromFile, PluginTypeOK
<1>3. CASE Start(p, f.document)
  BY <1>0, <1>1, <1>3, StartInv DEF LoadPluginFromFile, PluginTypeOK
<1>. QED  BY <1>2, <1>3 DEF LoadPluginFromFile

LEMMA ParseLibraryInv ==
  ASSUME PluginTypeOK, NEW p \in Plugins, Got(p), ParseLibrary(p)
  PROVE  PluginTypeOK' /\ Got(p)'
<1>0. document[p] \in Documents /\ next[p] = 1
  BY DEF Got, ParseLibrary
<1>1. CASE UNCHANGED <<library, era>> /\ Throw(p)
  BY <1>1, ThrowGot DEF ParseLibrary, PluginTypeOK
<1>2. CASE document[p].shared_library \notin {Absent, Mistyped} /\ Hold(p, LibraryNamed(p))
  <2>1. /\ document[p].shared_library \in Names \cup {Null}
        /\ LibraryNamed(p) \in Libraries \cup {Program, None}
    BY <1>0, <1>2, NamedLibrary
  <2>2. /\ library' \in [Plugins -> Libraries \cup {Program, None}]
        /\ era' \in [Libraries \cup {Program} -> Nat]
        /\ library'[p] = LibraryNamed(p)
    BY <1>2, <2>1, HoldUntouched
  <2>3. CASE Throw(p)
    BY <2>2, <2>3, ThrowGot DEF ParseLibrary, PluginTypeOK
  <2>4. CASE LibraryNamed(p) # None /\ Proceed(p, "configuration")
    <3>1. PluginTypeOK'
      BY <2>2, <2>4 DEF ParseLibrary, PluginTypeOK, Proceed
    <3>2. pc'[p] = "configuration" /\ UNCHANGED <<next, document, configPath>>
      BY <2>4 DEF ParseLibrary, PluginTypeOK, Proceed
    <3>3. LibraryNamed(p)' = LibraryNamed(p)
      BY <3>2 DEF LibraryNamed
    <3>4. GotBefore(p)'
      BY <2>4, <3>2 DEF Got, GotBefore, ParseLibrary, Proceed
    <3>. QED
      BY <1>0, <2>1, <2>2, <2>4, <3>1, <3>2, <3>3, <3>4
      DEF Got, GotLibrary, GotConfiguration, GotMembers, GotPointers, GotList, At, Loaded
  <2>. QED  BY <1>2, <2>3, <2>4 DEF ParseLibrary
<1>. QED  BY <1>1, <1>2 DEF ParseLibrary

\* Every setting is read that the document gives, up to one that cannot be.
LEMMA SettingsRead ==
  ASSUME PluginTypeOK, NEW p \in Plugins, Got(p), ParseConfiguration(p)
  PROVE  /\ config' \in [Plugins -> [SettingTags -> Values]]
         /\ \A k \in SettingTags : config'[p][k] # before[p].config[k] =>
              \A j \in 1..(k - 1) : SettingRead(p, j)
         /\ Throw(p) \/ (Proceed(p, "members") /\ \A k \in SettingTags : SettingRead(p, k))
<1> DEFINE given == document[p].configuration
           Returns(k) == given[k] \in Values \/ (given[k] = Absent /\ k \in MayBeLeftOut)
           Good(k) == \A j \in 1..k : Returns(j)
           read(part) == [k \in SettingTags |->
                            IF ~Good(k - 1) \/ given[k] = Absent THEN config[p][k]
                            ELSE IF given[k] = Mistyped THEN part ELSE given[k]]
<1>0. /\ document[p] \in Documents /\ config[p] = before[p].config
      /\ config \in [Plugins -> [SettingTags -> Values]]
  BY DEF ParseConfiguration, Got, GotBefore, PluginTypeOK
<1>1. CASE UNCHANGED config /\ Throw(p)
  BY <1>0, <1>1
<1>2. CASE given \notin {Absent, Mistyped}
  <2>1. given \in [SettingTags -> Values \cup {Absent, Mistyped}]
    BY <1>0, <1>2, DocumentsAssumption DEF DocumentType
  <2>2. PICK part \in Values : config' = [config EXCEPT ![p] = read(part)]
    BY <1>2 DEF ParseConfiguration
  <2>3. read(part) \in [SettingTags -> Values]
    BY <1>0, <2>1
  <2> HIDE DEF read
  <2>4. config' \in [Plugins -> [SettingTags -> Values]] /\ config'[p] = read(part)
    BY <1>0, <2>2, <2>3
  <2> USE DEF read
  <2>5. ASSUME NEW j \in SettingTags, Good(j)
        PROVE  SettingRead(p, j)
    <3>1. Returns(j) /\ Good(j - 1)
      BY <2>5, DocumentsAssumption DEF SettingTags
    <3>2. CASE given[j] = Absent
      <4>1. j \in MayBeLeftOut
        BY <3>1, <3>2, DocumentsAssumption
      <4>2. config'[p][j] = before[p].config[j]
        BY <1>0, <2>4, <3>2
      <4>. QED  BY <3>2, <4>1, <4>2 DEF SettingRead, Given
    <3>3. CASE given[j] # Absent
      <4>1. given[j] # Mistyped
        BY <3>1, <3>3, DocumentsAssumption
      <4>2. config'[p][j] = given[j]
        BY <2>4, <3>1, <3>3, <4>1
      <4>. QED  BY <3>3, <4>2 DEF SettingRead, Given
    <3>. QED  BY <3>2, <3>3
  <2>6. ASSUME NEW k \in SettingTags, config'[p][k] # before[p].config[k], NEW j \in 1..(k - 1)
        PROVE  SettingRead(p, j)
    <3>1. Good(k - 1)
      BY <1>0, <2>4, <2>6
    <3>2. j \in SettingTags /\ Good(j)
      BY <3>1, DocumentsAssumption DEF SettingTags
    <3>. QED  BY <2>5, <3>2
  <2>7. ASSUME Good(NumSettings), NEW k \in SettingTags
        PROVE  SettingRead(p, k)
    <3>1. Good(k)
      BY <2>7, DocumentsAssumption DEF SettingTags
    <3>. QED  BY <2>5, <3>1
  <2>8. (Good(NumSettings) /\ Proceed(p, "members")) \/ Throw(p)
    BY <1>2 DEF ParseConfiguration
  <2>. QED  BY <2>4, <2>6, <2>7, <2>8
<1>. QED  BY <1>1, <1>2 DEF ParseConfiguration

LEMMA ParseConfigurationInv ==
  ASSUME PluginTypeOK, NEW p \in Plugins, Got(p), ParseConfiguration(p)
  PROVE  PluginTypeOK' /\ Got(p)'
<1>1. config' \in [Plugins -> [SettingTags -> Values]]
  BY SettingsRead
<1>2. CASE Throw(p)
  BY <1>1, <1>2, ThrowGot DEF ParseConfiguration, PluginTypeOK
<1>3. CASE Proceed(p, "members") /\ \A k \in SettingTags : SettingRead(p, k)
  <2>1. PluginTypeOK'
    BY <1>1, <1>3 DEF ParseConfiguration, PluginTypeOK, Proceed
  <2>2. /\ pc[p] = "configuration" /\ pc'[p] = "members"
        /\ UNCHANGED <<next, document, configPath, library, pointers, list, before>>
    BY <1>3 DEF ParseConfiguration, PluginTypeOK, Proceed
  <2>3. LibraryNamed(p)' = LibraryNamed(p)
    BY <2>2 DEF LibraryNamed
  <2>4. GotConfiguration(p)'
    BY <1>3, <2>2 DEF GotConfiguration, GotSetting, SettingRead, Given
  <2>5. GotBefore(p)'
    BY <1>3, <2>2 DEF Got, GotBefore, SettingRead, Given
  <2>. QED
    BY <2>1, <2>2, <2>3, <2>4, <2>5
    DEF Got, GotLibrary, GotMembers, GotPointers, GotList, At, Loaded
<1>. QED  BY <1>2, <1>3, SettingsRead

LEMMA ParseMembersInv ==
  ASSUME PluginTypeOK, NEW p \in Plugins, Got(p), ParseMembers(p)
  PROVE  PluginTypeOK' /\ Got(p)'
<1>1. CASE Throw(p)
  BY <1>1, ThrowGot DEF ParseMembers, PluginTypeOK
<1>2. CASE Section(p) \notin {Absent, Mistyped} /\ Proceed(p, "pointers")
  <2>1. PluginTypeOK'
    BY <1>2 DEF ParseMembers, PluginTypeOK, Proceed
  <2>2. /\ pc[p] = "members" /\ pc'[p] = "pointers"
        /\ UNCHANGED <<next, document, configPath, library, config, pointers, list, before>>
    BY <1>2 DEF ParseMembers, PluginTypeOK, Proceed
  <2>3. LibraryNamed(p)' = LibraryNamed(p) /\ Section(p)' = Section(p)
    BY <2>2 DEF LibraryNamed, Section
  <2>4. Section(p) \in [PointerTags -> Entries \cup {Absent}]
    <3>1. document[p] \in Documents
      BY <2>2 DEF Got
    <3>. QED  BY <3>1, <1>2, DocumentsAssumption DEF DocumentType, Section
  <2>5. \A k \in PointerTags : ~(k < next'[p])
    BY <2>2, DocumentsAssumption DEF Got, PointerTags
  <2>6. GotConfiguration(p)' /\ GotBefore(p)'
    BY <2>2, <2>3 DEF Got, GotConfiguration, GotSetting, GotBefore, Given, At
  <2>. QED
    BY <2>1, <2>2, <2>3, <2>4, <2>5, <2>6
    DEF Got, GotLibrary, GotMembers, GotPointers, GotList, At, Loaded
<1>. QED  BY <1>1, <1>2 DEF ParseMembers

\* A pointer that parse has made is one.
LEMMA ResolvedIsPointer ==
  ASSUME PluginTypeOK, NEW p \in Plugins, library[p] # None, NEW entry, Resolves(p, entry)
  PROVE  Resolved(p, entry) \in PointerType
<1>1. library[p] \in Libraries \cup {Program} /\ era[library[p]] \in Nat
  BY DEF PluginTypeOK
<1>2. entry = Null \/ entry \in Symbols
  BY <1>1, LibrariesAssumption DEF Resolves
<1>. QED  BY <1>1, <1>2 DEF Resolved, Pointer, PointerType

LEMMA ParsePointerInv ==
  ASSUME PluginTypeOK, NEW p \in Plugins, Got(p), ParsePointer(p)
  PROVE  PluginTypeOK' /\ Got(p)'
<1> DEFINE k == next[p]
           entry == Section(p)[k]
<1>1. /\ pc[p] = "pointers" /\ k \in PointerTags /\ library[p] # None
      /\ document[p] \in Documents
  BY DEF ParsePointer, Got, GotLibrary, At
<1>2. CASE /\ UNCHANGED pointers /\ Throw(p)
  BY <1>2, ThrowGot DEF ParsePointer, PluginTypeOK
<1>3. CASE /\ next' = [next EXCEPT ![p] = @ + 1]
           /\ UNCHANGED <<pc, document, before>>
           /\ \/ entry = Absent /\ UNCHANGED pointers
              \/ /\ entry # Absent /\ Resolves(p, entry)
                 /\ pointers' = [pointers EXCEPT ![p][k] = Resolved(p, entry)]
  <2>1. pointers' \in [Plugins -> [PointerTags -> PointerType]]
    <3>1. entry # Absent /\ Resolves(p, entry) => Resolved(p, entry) \in PointerType
      BY <1>1, ResolvedIsPointer
    <3>2. CASE UNCHANGED pointers
      BY <3>2 DEF PluginTypeOK
    <3>3. ASSUME NEW pointer \in PointerType, pointers' = [pointers EXCEPT ![p][k] = pointer]
          PROVE  pointers' \in [Plugins -> [PointerTags -> PointerType]]
      <4>1. pointers \in [Plugins -> [PointerTags -> PointerType]]
        BY DEF PluginTypeOK
      <4>. QED  BY <1>1, <3>3, <4>1
    <3>. QED  BY <1>3, <3>1, <3>2, <3>3
  <2>2. /\ next' \in [Plugins -> 1..(NumPointers + 1)]
        /\ next'[p] = k + 1
    BY <1>1, <1>3, DocumentsAssumption DEF PluginTypeOK, PointerTags
  <2>3. PluginTypeOK'
    BY <1>3, <2>1, <2>2 DEF ParsePointer, PluginTypeOK
  <2>4. UNCHANGED <<library, configPath, config, list, era, document, pc, before>>
    BY <1>3 DEF ParsePointer
  <2>5. /\ LibraryNamed(p)' = LibraryNamed(p) /\ Section(p)' = Section(p)
        /\ \A e : (Resolves(p, e)' <=> Resolves(p, e)) /\ Resolved(p, e)' = Resolved(p, e)
    BY <2>4 DEF LibraryNamed, Section, Resolves, Resolved
  <2>6. ASSUME NEW j \in PointerTags, j < next'[p]
        PROVE  GotPointer(p, j)'
    <3>1. CASE j = k
      <4>1. entry # Absent => Resolves(p, entry) /\ pointers'[p][k] = Resolved(p, entry)
        BY <1>1, <1>3 DEF PluginTypeOK
      <4>. QED  BY <3>1, <4>1, <2>5 DEF GotPointer
    <3>2. CASE j # k
      <4>1. j < k
        BY <2>2, <2>6, <3>2, <1>1, DocumentsAssumption DEF PointerTags
      <4>2. GotPointer(p, j)
        BY <1>1, <4>1 DEF Got, GotPointers
      <4>3. pointers'[p][j] = pointers[p][j]
        BY <1>3, <3>2 DEF PluginTypeOK
      <4>. QED  BY <4>2, <4>3, <2>5 DEF GotPointer
    <3>. QED  BY <3>1, <3>2
  <2>7. ASSUME NEW j \in PointerTags, j >= next'[p] \/ Section(p)[j] = Absent
        PROVE  pointers'[p][j] = before[p].pointers[j]
    <3>1. j >= next[p] \/ Section(p)[j] = Absent
      BY <1>1, <2>2, <2>7, DocumentsAssumption DEF PointerTags
    <3>2. pointers[p][j] = before[p].pointers[j]
      BY <1>1, <3>1 DEF Got, GotBefore
    <3>3. pointers'[p][j] = pointers[p][j]
      <4>1. j # k \/ entry = Absent
        BY <1>1, <2>2, <2>7, DocumentsAssumption DEF PointerTags
      <4>. QED  BY <1>3, <4>1 DEF PluginTypeOK
    <3>. QED  BY <3>2, <3>3
  <2>8. GotConfiguration(p)' /\ GotBefore(p)'
    <3>1. Given(p, 1)' = Given(p, 1) /\ \A i : Given(p, i)' = Given(p, i)
      BY <2>4 DEF Given
    <3>. QED
      BY <1>1, <2>4, <2>5, <2>7, <3>1
      DEF Got, GotConfiguration, GotSetting, GotBefore, At
  <2>. QED
    BY <1>1, <2>3, <2>4, <2>5, <2>6, <2>8
    DEF Got, GotLibrary, GotMembers, GotPointers, GotList, At, Loaded
<1>. QED  BY <1>2, <1>3 DEF ParsePointer

LEMMA ParseListInv ==
  ASSUME PluginTypeOK, NEW p \in Plugins, Got(p), ParseList(p)
  PROVE  PluginTypeOK' /\ Got(p)'
<1> DEFINE entries == document[p].list
           Good(i) == \A j \in 1..i : Resolves(p, entries[j])
           new == [i \in DOMAIN entries |-> IF Good(i) THEN Resolved(p, entries[i]) ELSE Null]
<1>1. /\ pc[p] = "pointers" /\ next[p] \notin PointerTags /\ library[p] # None
      /\ document[p] \in Documents
  BY DEF ParseList, Got, GotLibrary, At
<1>2. CASE UNCHANGED list /\ Throw(p)
  BY <1>2, ThrowGot DEF ParseList, PluginTypeOK
<1>3. CASE /\ entries \notin {Absent, Mistyped}
           /\ list' = [list EXCEPT ![p] = new]
  <2>1. entries \in Seq(Entries)
    BY <1>1, <1>3, DocumentsAssumption DEF DocumentType
  <2>2. ASSUME NEW i \in DOMAIN entries, Good(i)
        PROVE  Resolves(p, entries[i]) /\ Resolved(p, entries[i]) \in PointerType
    <3>1. i \in 1..i
      BY <2>1
    <3>2. Resolves(p, entries[i])
      BY <2>2, <3>1
    <3>. QED  BY <1>1, <3>2, ResolvedIsPointer
  <2>3. new \in Seq(PointerType)
    <3>1. ASSUME NEW i \in DOMAIN entries
          PROVE  (IF Good(i) THEN Resolved(p, entries[i]) ELSE Null) \in PointerType
      BY <2>2 DEF PointerType
    <3>2. new \in [DOMAIN entries -> PointerType]
      BY <3>1
    <3>3. DOMAIN entries = 1..Len(entries) /\ Len(entries) \in Nat
      BY <2>1
    <3> HIDE DEF new
    <3>. QED  BY <3>2, <3>3
  <2>4. list' \in [Plugins -> Seq(PointerType)] /\ list'[p] = new
    BY <1>3, <2>3 DEF PluginTypeOK
  <2>5. CASE Throw(p)
    BY <2>4, <2>5, ThrowGot DEF ParseList, PluginTypeOK
  <2>6. CASE Good(Len(entries)) /\ Return(p)
    <3>1. PluginTypeOK'
      BY <2>4, <2>6, DocumentsAssumption DEF ParseList, PluginTypeOK, Return
    <3>2. /\ pc'[p] = "idle" /\ next'[p] = 1
          /\ UNCHANGED <<library, configPath, config, pointers, document, era>>
      BY <2>6 DEF ParseList, PluginTypeOK, Return
    <3>3. /\ LibraryNamed(p)' = LibraryNamed(p) /\ Section(p)' = Section(p)
          /\ \A e : (Resolves(p, e)' <=> Resolves(p, e)) /\ Resolved(p, e)' = Resolved(p, e)
      BY <3>2 DEF LibraryNamed, Section, Resolves, Resolved
    <3>4. \A k \in PointerTags : GotPointer(p, k)
      <4>0. next[p] \in 1..(NumPointers + 1)
        BY DEF PluginTypeOK
      <4>1. next[p] = NumPointers + 1
        BY <1>1, <4>0, DocumentsAssumption DEF PointerTags
      <4>2. \A k \in PointerTags : k < next[p]
        BY <4>1, DocumentsAssumption DEF PointerTags
      <4>. QED  BY <1>1, <4>2 DEF Got, GotPointers
    <3>5. \A k \in PointerTags : GotPointer(p, k)'
      BY <3>2, <3>3, <3>4 DEF GotPointer
    <3>6. \A i \in DOMAIN new : Resolves(p, entries[i]) /\ new[i] = Resolved(p, entries[i])
      <4>1. \A i \in DOMAIN entries : Good(i)
        BY <2>1, <2>6
      <4>. QED  BY <4>1, <2>2
    <3>7. GotList(p)'
      BY <2>1, <2>4, <3>2, <3>3, <3>6 DEF GotList
    <3>. QED
      BY <1>1, <3>1, <3>2, <3>3, <3>5, <3>7
      DEF Got, GotLibrary, GotConfiguration, GotSetting, Given, GotMembers, GotPointers,
          GotBefore, At, Loaded
  <2>. QED  BY <1>3, <2>5, <2>6 DEF ParseList
<1>. QED  BY <1>2, <1>3 DEF ParseList

LEMMA RenewInv ==
  ASSUME PluginTypeOK, NEW p \in Plugins, Got(p), Renew(p)
  PROVE  PluginTypeOK' /\ Got(p)'
<1>1. /\ library' \in [Plugins -> Libraries \cup {Program, None}]
      /\ era' \in [Libraries \cup {Program} -> Nat]
  BY HoldUntouched DEF Renew
<1>2. PluginTypeOK'
  <2>1. pointers' \in [Plugins -> [PointerTags -> PointerType]]
    <3>1. [k \in PointerTags |-> Null] \in [PointerTags -> PointerType]
      BY DEF PointerType
    <3>. QED  BY <3>1 DEF Renew, PluginTypeOK
  <2>2. list' \in [Plugins -> Seq(PointerType)]
    BY DEF Renew, PluginTypeOK
  <2>3. /\ configPath' \in [Plugins -> Directories \cup {NoDirectory}]
        /\ config' \in [Plugins -> [SettingTags -> Values]]
        /\ document' \in [Plugins -> Documents \cup {NoDocument}]
    BY LibrariesAssumption DEF Renew, PluginTypeOK
  <2>. QED  BY <1>1, <2>1, <2>2, <2>3 DEF Renew, PluginTypeOK
<1>3. pc'[p] = "idle" /\ document'[p] = NoDocument /\ next'[p] = 1
  BY DEF Renew, PluginTypeOK, Got
<1>. QED
  BY <1>2, <1>3
  DEF Got, GotLibrary, GotConfiguration, GotMembers, GotPointers, GotList, GotBefore, At, Loaded

\* One step of one plugin, or none.
PluginStep(p) ==
  \/ \E d \in Documents : LoadPluginFromString(p, d)
  \/ \E f \in Files : LoadPluginFromFile(p, f)
  \/ Step(p)
  \/ Renew(p)

LEMMA StepInv == Inv /\ [Next]_vars => Inv'
<1>. SUFFICES ASSUME Inv, [Next]_vars PROVE Inv'
  OBVIOUS
<1>1. ASSUME NEW p \in Plugins, PluginStep(p)
      PROVE  Inv'
  <2>1. PluginTypeOK' /\ Got(p)'
    BY <1>1, StringInv, FileInv, ParseLibraryInv, ParseConfigurationInv, ParseMembersInv,
       ParsePointerInv, ParseListInv, RenewInv
    DEF Inv, PluginStep, Step
  <2>2. ASSUME NEW q \in Plugins \ {p} PROVE Got(q)'
    BY <1>1, OthersUntouched, UntouchedGot DEF Inv, PluginStep
  <2>. QED  BY <2>1, <2>2 DEF Inv
<1>2. CASE UNCHANGED vars
  <2>1. ASSUME NEW q \in Plugins PROVE Untouched(q)
    BY <1>2 DEF vars, Untouched, Row
  <2>2. PluginTypeOK'
    BY <1>2 DEF Inv, PluginTypeOK, vars
  <2>. QED  BY <2>1, <2>2, UntouchedGot DEF Inv
<1>. QED  BY <1>1, <1>2 DEF Next, PluginStep

\* How far each load has got, and what it has put in place by then.
THEOREM LoadsGetThere == Spec => []Inv
<1>. QED  BY InitInv, StepInv, PTL DEF Spec

\* Every member of every plugin has its type.
THEOREM PluginTypeCorrect == Spec => []PluginTypeOK
<1>1. Inv => PluginTypeOK
  BY DEF Inv
<1>. QED  BY <1>1, LoadsGetThere, PTL

\* A resolved pointer of a plugin can be called: the plugin holds its library.
LEMMA ResolvedCallable ==
  ASSUME PluginTypeOK, NEW p \in Plugins, library[p] # None, NEW entry, Resolves(p, entry)
  PROVE  Callable(Resolved(p, entry))
<1>. SUFFICES ASSUME entry # Null PROVE Callable(Resolved(p, entry))
  BY DEF Resolved, Callable
<1>1. Resolved(p, entry) = Pointer(library[p], era[library[p]], entry)
  BY DEF Resolved
<1>2. entry \in Exports[library[p]]
  BY DEF Resolves
<1>. QED  BY <1>1, <1>2 DEF Callable, Pointer

\* A load that returned has installed its document, and what it installed can
\* be called, whatever the other plugins have done since.
THEOREM InstalledHolds == Spec => []Installed
<1>1. Inv => Installed
  <2>. SUFFICES ASSUME Inv, NEW p \in Plugins, Loaded(p)
                PROVE  /\ library[p] = LibraryNamed(p) /\ library[p] # None
                       /\ \A k \in SettingTags : GotSetting(p, k)
                       /\ \A k \in PointerTags : Section(p)[k] # Absent =>
                            /\ pointers[p][k] = Resolved(p, Section(p)[k])
                            /\ Callable(pointers[p][k])
                       /\ DOMAIN list[p] = DOMAIN document[p].list
                       /\ \A i \in DOMAIN list[p] :
                            /\ list[p][i] = Resolved(p, document[p].list[i])
                            /\ Callable(list[p][i])
    BY DEF Installed, GotSetting
  <2>1. /\ library[p] = LibraryNamed(p) /\ library[p] # None
        /\ \A k \in SettingTags : GotSetting(p, k)
    BY DEF Inv, Got, GotLibrary, GotConfiguration, At
  <2>2. ASSUME NEW k \in PointerTags, Section(p)[k] # Absent
        PROVE  pointers[p][k] = Resolved(p, Section(p)[k]) /\ Callable(pointers[p][k])
    <3>1. Resolves(p, Section(p)[k]) /\ pointers[p][k] = Resolved(p, Section(p)[k])
      BY <2>2 DEF Inv, Got, GotPointers, GotPointer
    <3>. QED  BY <2>1, <3>1, ResolvedCallable DEF Inv
  <2>3. DOMAIN list[p] = DOMAIN document[p].list
    BY DEF Inv, Got, GotList
  <2>4. ASSUME NEW i \in DOMAIN list[p]
        PROVE  list[p][i] = Resolved(p, document[p].list[i]) /\ Callable(list[p][i])
    <3>1. Resolves(p, document[p].list[i]) /\ list[p][i] = Resolved(p, document[p].list[i])
      BY <2>4 DEF Inv, Got, GotList
    <3>. QED  BY <2>1, <3>1, ResolvedCallable DEF Inv
  <2>. QED  BY <2>1, <2>2, <2>3, <2>4
<1>. QED  BY <1>1, LoadsGetThere, PTL

\* A list changes as a whole, to null pointers and pointers into one library.
LEMMA ListStep ==
  ASSUME Inv, NEW p \in Plugins, PluginStep(p), OfOneLibrary(list[p])
  PROVE  OfOneLibrary(list'[p])
<1>1. CASE UNCHANGED list
  BY <1>1
<1>2. CASE ParseList(p) /\ ~UNCHANGED list
  <2> DEFINE entries == document[p].list
             Good(i) == \A j \in 1..i : Resolves(p, entries[j])
  <2>1. list'[p] = [i \in DOMAIN entries |-> IF Good(i) THEN Resolved(p, entries[i]) ELSE Null]
    BY <1>2 DEF ParseList, Inv, PluginTypeOK
  <2>2. \A i \in DOMAIN list'[p] :
          list'[p][i] # Null =>
            list'[p][i] = Pointer(library[p], era[library[p]], entries[i])
    BY <2>1 DEF Resolved
  <2>3. \A e : /\ Pointer(library[p], era[library[p]], e).library = library[p]
               /\ Pointer(library[p], era[library[p]], e).era = era[library[p]]
    BY DEF Pointer
  <2>. QED  BY <2>2, <2>3 DEF OfOneLibrary
<1>3. CASE Renew(p)
  <2>1. list'[p] = <<>>
    BY <1>3 DEF Renew, Inv, PluginTypeOK
  <2>. QED  BY <2>1 DEF OfOneLibrary
<1>. QED
  BY <1>1, <1>2, <1>3
  DEF PluginStep, Step, LoadPluginFromString, LoadPluginFromFile, ParseLibrary,
      ParseConfiguration, ParseMembers, ParsePointer

\* No list mixes libraries, nor two mappings of the same library.
THEOREM ListOfOneLibraryHolds == Spec => []ListOfOneLibrary
<1>1. Init => ListOfOneLibrary
  BY DEF Init, ListOfOneLibrary, OfOneLibrary
<1>2. Inv /\ ListOfOneLibrary /\ [Next]_vars => ListOfOneLibrary'
  <2>. SUFFICES ASSUME Inv, ListOfOneLibrary, [Next]_vars PROVE ListOfOneLibrary'
    OBVIOUS
  <2>1. ASSUME NEW p \in Plugins, PluginStep(p), NEW q \in Plugins
        PROVE  OfOneLibrary(list'[q])
    <3>1. CASE q = p
      BY <2>1, <3>1, ListStep DEF ListOfOneLibrary
    <3>2. CASE q # p
      <4>1. list'[q] = list[q]
        BY <2>1, <3>2, OthersUntouched DEF Inv, PluginStep, Untouched, Row
      <4>. QED  BY <4>1 DEF ListOfOneLibrary
    <3>. QED  BY <3>1, <3>2
  <2>2. CASE UNCHANGED vars
    BY <2>2 DEF vars, ListOfOneLibrary
  <2>3. \A q \in Plugins : OfOneLibrary(list'[q])
    BY <2>1, <2>2 DEF Next, PluginStep, vars, ListOfOneLibrary
  <2>. QED  BY <2>3 DEF ListOfOneLibrary, OfOneLibrary
<1>. QED  BY <1>1, <1>2, LoadsGetThere, PTL DEF Spec

\* What a step has changed of a plugin that is being loaded, and of no other.
OrderOf(p) ==
  /\ \A k \in SettingTags : config'[p][k] # before[p].config[k] =>
       /\ library[p] = LibraryNamed(p)
       /\ \A j \in 1..(k - 1) : SettingRead(p, j)
  /\ \A k \in PointerTags : pointers'[p][k] # before[p].pointers[k] =>
       /\ \A j \in SettingTags : SettingRead(p, j)
       /\ \A j \in 1..(k - 1) : PointerRead(p, j)
  /\ list'[p] # before[p].list =>
       /\ \A j \in SettingTags : SettingRead(p, j)
       /\ \A j \in PointerTags : PointerRead(p, j)
  /\ pc'[p] = "idle" /\ document'[p] # NoDocument =>
       /\ \A j \in SettingTags : SettingRead(p, j)
       /\ \A j \in PointerTags : PointerRead(p, j)
       /\ ListRead(p)

\* The settings are all read when those after them are, and stay so.
LEMMA SettingsStay ==
  ASSUME PluginTypeOK, NEW p \in Plugins, Got(p), pc[p] \in {"members", "pointers"},
         config'[p] = config[p]
  PROVE  \A j \in SettingTags : SettingRead(p, j)
  BY DEF Got, GotBefore, GotConfiguration, GotSetting, At, SettingRead

\* So are the pointers up to the one that is next.
LEMMA PointersStay ==
  ASSUME PluginTypeOK, NEW p \in Plugins, Got(p), pc[p] = "pointers",
         NEW j \in PointerTags, j < next[p], pointers'[p][j] = pointers[p][j]
  PROVE  PointerRead(p, j)
  BY DEF Got, GotBefore, GotPointers, GotPointer, PointerRead

\* A step that leaves alone what the load has read so far, and throws if it ends the load.
LEMMA OrderStays ==
  ASSUME PluginTypeOK, NEW p \in Plugins, Got(p), pc[p] # "idle",
         config'[p] = config[p], pointers'[p] = pointers[p], list'[p] = list[p],
         pc'[p] = "idle" => document'[p] = NoDocument
  PROVE  OrderOf(p)
<1>1. pc[p] \in {"library", "configuration", "members", "pointers"}
  BY DEF PluginTypeOK
<1>2. list'[p] = before[p].list
  BY DEF Got, GotBefore
<1>3. CASE pc[p] \in {"library", "configuration"}
  BY <1>2, <1>3 DEF OrderOf, Got, GotBefore
<1>4. CASE pc[p] \in {"members", "pointers"}
  <2>1. \A j \in SettingTags : SettingRead(p, j)
    BY <1>4, SettingsStay
  <2>2. library[p] = LibraryNamed(p)
    BY <1>4 DEF Got, GotLibrary, At
  <2>3. \A j \in 1..NumSettings : SettingRead(p, j)
    BY <2>1 DEF SettingTags
  <2>4. ASSUME NEW k \in SettingTags, NEW j \in 1..(k - 1) PROVE SettingRead(p, j)
    BY <2>3, DocumentsAssumption DEF SettingTags
  <2>5. ASSUME NEW k \in PointerTags, pointers'[p][k] # before[p].pointers[k],
               NEW j \in 1..(k - 1)
        PROVE  PointerRead(p, j)
    <3>1. pc[p] = "pointers" /\ ~(k >= next[p])
      BY <1>4, <2>5 DEF Got, GotBefore
    <3>2. j \in PointerTags /\ j < next[p]
      <4>1. next[p] \in Nat
        BY DocumentsAssumption DEF PluginTypeOK
      <4>. QED  BY <3>1, <4>1, DocumentsAssumption DEF PointerTags
    <3>. QED  BY <3>1, <3>2, PointersStay
  <2>. QED  BY <1>2, <2>1, <2>2, <2>4, <2>5 DEF OrderOf
<1>. QED  BY <1>1, <1>3, <1>4

LEMMA OrderConfiguration ==
  ASSUME PluginTypeOK, NEW p \in Plugins, Got(p), ParseConfiguration(p)
  PROVE  OrderOf(p)
<1>1. pc[p] = "configuration" /\ UNCHANGED <<pointers, list>>
  BY DEF ParseConfiguration
<1>2. library[p] = LibraryNamed(p)
  BY <1>1 DEF Got, GotLibrary, At
<1>3. pointers'[p] = before[p].pointers /\ list'[p] = before[p].list
  BY <1>1 DEF Got, GotBefore
<1>4. pc'[p] = "idle" => document'[p] = NoDocument
  BY SettingsRead DEF Throw, Proceed, PluginTypeOK
<1>. QED  BY <1>2, <1>3, <1>4, SettingsRead DEF OrderOf

LEMMA OrderPointer ==
  ASSUME PluginTypeOK, NEW p \in Plugins, Got(p), ParsePointer(p)
  PROVE  OrderOf(p)
<1>1. /\ pc[p] = "pointers" /\ next[p] \in PointerTags /\ next[p] \in Nat
      /\ config'[p] = config[p] /\ list'[p] = list[p]
  BY DocumentsAssumption DEF ParsePointer, PointerTags
<1>2. pc'[p] = "idle" => document'[p] = NoDocument
  BY <1>1 DEF ParsePointer, Throw, PluginTypeOK
<1>3. CASE pointers'[p] = pointers[p]
  BY <1>1, <1>2, <1>3, OrderStays
<1>4. CASE pointers' = [pointers EXCEPT ![p][next[p]] = Resolved(p, Section(p)[next[p]])]
  <2>1. \A k \in PointerTags \ {next[p]} : pointers'[p][k] = pointers[p][k]
    BY <1>4 DEF PluginTypeOK
  <2>2. \A j \in SettingTags : SettingRead(p, j)
    BY <1>1, SettingsStay
  <2>3. library[p] = LibraryNamed(p)
    BY <1>1 DEF Got, GotLibrary, At
  <2>4. ASSUME NEW k \in SettingTags, NEW j \in 1..(k - 1) PROVE SettingRead(p, j)
    BY <2>2, DocumentsAssumption DEF SettingTags
  <2>5. list'[p] = before[p].list
    BY <1>1 DEF Got, GotBefore
  <2>6. ASSUME NEW k \in PointerTags, pointers'[p][k] # before[p].pointers[k],
               NEW j \in 1..(k - 1)
        PROVE  PointerRead(p, j)
    <3>1. ~(k > next[p])
      BY <1>1, <2>1, <2>6, DocumentsAssumption DEF Got, GotBefore, PointerTags
    <3>2. j \in PointerTags /\ j < next[p]
      BY <1>1, <3>1, DocumentsAssumption DEF PointerTags
    <3>3. pointers'[p][j] = pointers[p][j]
      BY <2>1, <3>2, DocumentsAssumption DEF PointerTags
    <3>. QED  BY <1>1, <3>2, <3>3, PointersStay
  <2>. QED  BY <1>2, <2>2, <2>3, <2>4, <2>5, <2>6 DEF OrderOf
<1>. QED  BY <1>1, <1>3, <1>4 DEF ParsePointer

LEMMA OrderList ==
  ASSUME PluginTypeOK, NEW p \in Plugins, Got(p), ParseList(p)
  PROVE  OrderOf(p)
<1> DEFINE entries == document[p].list
           Good(i) == \A j \in 1..i : Resolves(p, entries[j])
<1>1. /\ pc[p] = "pointers" /\ next[p] \notin PointerTags
      /\ UNCHANGED <<library, config, pointers, era>>
      /\ document[p] \in Documents
  BY DEF ParseList, Got
<1>2. next[p] = NumPointers + 1
  BY <1>1, DocumentsAssumption DEF PluginTypeOK, PointerTags
<1>3. \A j \in SettingTags : SettingRead(p, j)
  BY <1>1, SettingsStay
<1>4. \A j \in PointerTags : PointerRead(p, j)
  <2>1. \A j \in PointerTags : j < next[p]
    BY <1>2, DocumentsAssumption DEF PointerTags
  <2>. QED  BY <1>1, <2>1, PointersStay
<1>5. pointers'[p] = pointers[p] /\ library[p] = LibraryNamed(p)
  BY <1>1 DEF Got, GotLibrary, At
<1>6. ASSUME NEW k \in SettingTags, NEW j \in 1..(k - 1) PROVE SettingRead(p, j)
  BY <1>3, DocumentsAssumption DEF SettingTags
<1>7. ASSUME NEW k \in PointerTags, NEW j \in 1..(k - 1) PROVE PointerRead(p, j)
  BY <1>4, DocumentsAssumption DEF PointerTags
<1>8. ASSUME document'[p] # NoDocument PROVE ListRead(p)
  <2>1. ~Throw(p)
    BY <1>8 DEF Throw, PluginTypeOK
  <2>2. /\ entries \notin {Absent, Mistyped} /\ Good(Len(entries))
        /\ list' = [list EXCEPT ![p] =
                      [i \in DOMAIN entries |-> IF Good(i) THEN Resolved(p, entries[i]) ELSE Null]]
    BY <2>1 DEF ParseList
  <2>3. entries \in Seq(Entries)
    BY <1>1, <2>2, DocumentsAssumption DEF DocumentType
  <2>4. \A i \in DOMAIN entries : Good(i)
    BY <2>2, <2>3
  <2>5. list'[p] = [i \in DOMAIN entries |-> IF Good(i) THEN Resolved(p, entries[i]) ELSE Null]
    BY <2>2 DEF PluginTypeOK
  <2>. QED  BY <2>4, <2>5 DEF ListRead
<1>. QED  BY <1>3, <1>4, <1>5, <1>6, <1>7, <1>8 DEF OrderOf

\* A load that throws has changed nothing behind the member at fault, and one that
\* returns has read every member; what other plugins do makes no difference.
THEOREM ChangedInOrderHolds == Spec => ChangedInOrder
<1>1. Inv /\ [Next]_vars => InOrder
  <2>. SUFFICES ASSUME Inv, [Next]_vars, NEW p \in Plugins, pc[p] # "idle" PROVE OrderOf(p)
    BY DEF InOrder, OrderOf
  <2>0. PluginTypeOK /\ Got(p)
    BY DEF Inv
  <2>1. CASE UNCHANGED vars
    BY <2>0, <2>1, OrderStays DEF vars
  <2>2. ASSUME NEW q \in Plugins, PluginStep(q), q # p
        PROVE  OrderOf(p)
    <3>1. Row(p)' = Row(p)
      BY <2>2, OthersUntouched DEF Inv, PluginStep, Untouched
    <3>. QED  BY <2>0, <3>1, OrderStays DEF Row
  <2>3. ASSUME PluginStep(p)
        PROVE  OrderOf(p)
    <3>1. Step(p)
      BY <2>3 DEF PluginStep, LoadPluginFromString, LoadPluginFromFile, Renew
    <3>2. CASE ParseLibrary(p) \/ ParseMembers(p)
      <4>1. UNCHANGED <<config, pointers, list>>
        BY <3>2 DEF ParseLibrary, ParseMembers
      <4>2. pc'[p] = "idle" => document'[p] = NoDocument
        BY <2>0, <3>2 DEF ParseLibrary, ParseMembers, Throw, Proceed, PluginTypeOK
      <4>. QED  BY <2>0, <4>1, <4>2, OrderStays
    <3>. QED
      BY <2>0, <3>1, <3>2, OrderConfiguration, OrderPointer, OrderList DEF Step
  <2>. QED  BY <2>1, <2>2, <2>3 DEF Next, PluginStep
<1>. QED  BY <1>1, LoadsGetThere, PTL DEF Spec, ChangedInOrder
==============================================================================
