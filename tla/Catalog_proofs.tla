--------------------------- MODULE Catalog_proofs ---------------------------
(***************************************************************************)
(* Catalog, for any numbers of handlers, channels, assets and schedules:   *)
(* its type, the uniqueness of epgIds, which rests on the unique index     *)
(* alone, the currency of the two public responses, and what a deletion    *)
(* may take.                                                               *)
(***************************************************************************)
EXTENDS Catalog, TLAPS

\* What a handler holds follows from the statement it is about to send.
LEMMA RequestFields ==
    ASSUME NEW r \in Request
    PROVE  /\ r.op \in {"insertChannel", "updateChannel"} =>
                r.id \in ChannelIds /\ r.body \in ChannelBody
           /\ r.op = "updateAsset" => r.id \in AssetIds /\ r.body \in AssetBody
           /\ r.op = "findAffected" => r.id \in AssetIds
           /\ r.op = "deleteAsset" =>
                r.id \in AssetIds /\ r.since \in SUBSET ScheduleIds
           /\ r.op = "updateSchedule" => r.id \in ScheduleIds /\ r.asset \in AssetIds
           /\ r.op = "purge" => r.keys \in SUBSET Keys
BY SMTT(30) DEF Request

\* A row written from a row and a body is a row.
LEMMA RowsAfter ==
    /\ \A row \in ChannelRow, body \in ChannelBody : ChannelAfter(row, body) \in ChannelRow
    /\ \A row \in AssetRow, body \in AssetBody : AssetAfter(row, body) \in AssetRow
    /\ NewChannel \in ChannelRow
<1>1. ASSUME NEW row \in ChannelRow, NEW body \in ChannelBody
      PROVE  ChannelAfter(row, body) \in ChannelRow
  BY <1>1 DEF ChannelAfter, ChannelRow, ChannelBody
<1>2. ASSUME NEW row \in AssetRow, NEW body \in AssetBody
      PROVE  AssetAfter(row, body) \in AssetRow
  BY <1>2 DEF AssetAfter, AssetRow, AssetBody, UrlsAfter
<1>3. NewChannel \in ChannelRow
  BY DEF NewChannel, ChannelRow
<1> QED BY <1>1, <1>2, <1>3

\* A purge that is a request, or no request when there is nothing to delete.
LEMMA PurgingType == \A keys \in SUBSET Keys : Purging(keys) \in Request \cup {Null}
BY DEF Purging, Request

\* What is left to purge is a purge of it, and there is one.
LEMMA PurgingSome ==
    \A keys \in SUBSET Keys : \A k \in keys :
        Purging(keys) = [op |-> "purge", keys |-> keys] /\ Purging(keys) # Null
BY NullAssumption DEF Purging, Request

\* The rows a response may show.
LEMMA ShownType ==
    ASSUME CatalogTypeOK,
           \A s \in ScheduleIds : channels[ScheduleChannel[s]] # Null,
           \A s \in ScheduleIds : uses[s] # Null => assets[uses[s]] # Null,
           NEW k \in Keys
    PROVE  Shown(k) \in SUBSET (ListEntry \cup GuideEntry)
<1>1. ShownList \subseteq ListEntry
  BY DEF ShownList, ListEntry, CatalogTypeOK, ChannelRow
<1>2. ASSUME NEW c \in ChannelIds PROVE ShownGuide(c) \subseteq GuideEntry
  <2>1. ASSUME NEW s \in ScheduleIds, ScheduleChannel[s] = c
        PROVE  /\ channels[c].epgId \in EpgIds \cup {Null}
               /\ uses[s] # Null => assets[uses[s]].name \in Names
    BY <2>1 DEF CatalogTypeOK, ChannelRow, AssetRow
  <2> QED BY <2>1 DEF ShownGuide, GuideEntry
<1> QED BY <1>1, <1>2 DEF Shown, Keys

-----------------------------------------------------------------------------
(* The type, and what makes it inductive: a schedule's channel and asset   *)
(* are there, and so is the channel an UPDATE is about.                    *)

OnAir == \A s \in ScheduleIds : channels[ScheduleChannel[s]] # Null

RefersToAssets == \A s \in ScheduleIds : uses[s] # Null => assets[uses[s]] # Null

UpdatesExisting == \A h \in Handlers : Doing(h, "updateChannel") => channels[request[h].id] # Null

Sound == CatalogTypeOK /\ OnAir /\ RefersToAssets /\ UpdatesExisting

\* Nothing is lost while only what a handler will do, the cache or a reader changes.
LEMMA SoundAlone ==
    ASSUME Sound, UNCHANGED tables, CatalogTypeOK',
           \A h \in Handlers : Doing(h, "updateChannel")' =>
                channels[request'[h].id] # Null
    PROVE  Sound'
BY DEF Sound, OnAir, RefersToAssets, UpdatesExisting, tables, Doing

LEMMA SoundDecide ==
    ASSUME Sound, NEW h \in Handlers, NEW r \in Request, Decide(h, r),
           r.op = "updateChannel" => channels[r.id] # Null
    PROVE  Sound'
<1>1. CatalogTypeOK'
  BY DEF Sound, CatalogTypeOK, Decide, Goes, tables
<1>2. ASSUME NEW g \in Handlers, Doing(g, "updateChannel")'
      PROVE  channels[request'[g].id] # Null
  BY <1>2 DEF Sound, CatalogTypeOK, UpdatesExisting, Doing, Decide, Goes
<1> QED BY <1>1, <1>2, SoundAlone DEF Decide

LEMMA SoundInit == Init => Sound
<1> SUFFICES ASSUME Init PROVE Sound
  OBVIOUS
<1>1. CatalogTypeOK
  BY RowsAfter DEF Init, CatalogTypeOK
<1>2. OnAir
  BY ScheduleChannelAssumption, NullAssumption, RowsAfter DEF Init, OnAir
<1>3. RefersToAssets /\ UpdatesExisting
  BY DEF Init, RefersToAssets, UpdatesExisting, Doing
<1> QED BY <1>1, <1>2, <1>3 DEF Sound

LEMMA SoundWrites ==
    ASSUME Sound, NEW h \in Handlers,
           \/ InsertChannel(h) \/ WriteChannel(h) \/ CreateAsset(h) \/ WriteAsset(h)
           \/ FindAffected(h) \/ DeleteAsset(h) \/ WriteSchedule(h)
    PROVE  Sound'
<1> USE DEF Sound
<1>0. request[h] # Null => request[h] \in Request
  BY DEF CatalogTypeOK
<1>1. CASE InsertChannel(h)
  <2> DEFINE c == request[h].id
             row == ChannelAfter(NewChannel, request[h].body)
  <2>1. c \in ChannelIds /\ row \in ChannelRow
    BY <1>0, <1>1, RequestFields, RowsAfter DEF InsertChannel, Doing
  <2>2. channels' = [channels EXCEPT ![c] = row] /\ row # Null
    BY <1>1, <2>1, NullAssumption DEF InsertChannel
  <2>3. Purging(CreateChannelPurges) \in Request \cup {Null}
    BY PurgingType DEF CreateChannelPurges, Keys
  <2>4. CatalogTypeOK'
    BY <1>1, <2>1, <2>2, <2>3 DEF InsertChannel, Goes, CatalogTypeOK
  <2>5. OnAir' /\ RefersToAssets'
    BY <1>1, <2>1, <2>2 DEF InsertChannel, OnAir, RefersToAssets, CatalogTypeOK
  <2>6. UpdatesExisting'
    BY <1>1, <2>1, <2>2 DEF InsertChannel, Goes, UpdatesExisting, CatalogTypeOK, Doing, Purging
  <2> QED BY <2>4, <2>5, <2>6
<1>2. CASE WriteChannel(h)
  <2> DEFINE c == request[h].id
             row == ChannelAfter(channels[c], request[h].body)
  <2>1. c \in ChannelIds /\ row \in ChannelRow
    <3>1. c \in ChannelIds /\ request[h].body \in ChannelBody
      BY <1>0, <1>2, RequestFields DEF WriteChannel, Doing
    <3>2. channels[c] \in ChannelRow
      BY <1>2, <3>1 DEF WriteChannel, UpdatesExisting, CatalogTypeOK
    <3> QED BY <3>1, <3>2, RowsAfter
  <2>2. channels' = [channels EXCEPT ![c] = row] /\ row # Null
    BY <1>2, <2>1, NullAssumption DEF WriteChannel
  <2>3. Purging(UpdateChannelPurges(c)) \in Request \cup {Null}
    BY <2>1, PurgingType DEF UpdateChannelPurges, Keys
  <2>4. CatalogTypeOK'
    BY <1>2, <2>1, <2>2, <2>3 DEF WriteChannel, Goes, CatalogTypeOK
  <2>5. OnAir' /\ RefersToAssets'
    BY <1>2, <2>1, <2>2 DEF WriteChannel, OnAir, RefersToAssets, CatalogTypeOK
  <2>6. UpdatesExisting'
    BY <1>2, <2>1, <2>2 DEF WriteChannel, Goes, UpdatesExisting, CatalogTypeOK, Doing, Purging
  <2> QED BY <2>4, <2>5, <2>6
<1>3. CASE CreateAsset(h)
  <2>1. PICK a \in AssetIds, body \in AssetBodies :
          /\ body.name \in Names
          /\ assets' = [assets EXCEPT ![a] =
                [name |-> body.name, urls |-> UrlsAfter({}, body)]]
    BY <1>3 DEF CreateAsset
  <2> DEFINE row == [name |-> body.name, urls |-> UrlsAfter({}, body)]
  <2>2. row \in AssetRow /\ row # Null
    BY <2>1, NullAssumption DEF AssetRow, UrlsAfter
  <2>3. CatalogTypeOK'
    BY <1>3, <2>1, <2>2 DEF CreateAsset, CatalogTypeOK
  <2>4. OnAir' /\ RefersToAssets' /\ UpdatesExisting'
    BY <1>3, <2>1, <2>2
    DEF CreateAsset, OnAir, RefersToAssets, UpdatesExisting, CatalogTypeOK, Doing
  <2> QED BY <2>3, <2>4
<1>4. CASE WriteAsset(h)
  <2> DEFINE a == request[h].id
             row == AssetAfter(assets[a], request[h].body)
  <2>1. a \in AssetIds /\ row \in AssetRow
    <3>1. a \in AssetIds /\ request[h].body \in AssetBody
      BY <1>0, <1>4, RequestFields DEF WriteAsset, Doing
    <3>2. assets[a] \in AssetRow
      BY <1>4, <3>1 DEF WriteAsset, CatalogTypeOK
    <3> QED BY <3>1, <3>2, RowsAfter
  <2>2. assets' = [assets EXCEPT ![a] = row] /\ row # Null
    BY <1>4, <2>1, NullAssumption DEF WriteAsset, CatalogTypeOK
  <2>3. [op |-> "findAffected", id |-> a] \in Request
    BY <2>1 DEF Request
  <2>4. CatalogTypeOK'
    BY <1>4, <2>1, <2>2, <2>3 DEF WriteAsset, Goes, CatalogTypeOK
  <2>5. OnAir' /\ RefersToAssets'
    BY <1>4, <2>1, <2>2 DEF WriteAsset, OnAir, RefersToAssets, CatalogTypeOK
  <2>6. UpdatesExisting'
    BY <1>4 DEF WriteAsset, Goes, UpdatesExisting, CatalogTypeOK, Doing
  <2> QED BY <2>4, <2>5, <2>6
<1>5. CASE FindAffected(h)
  <2>1. Purging(Affected(request[h].id)) \in Request \cup {Null}
    BY PurgingType, ScheduleChannelAssumption DEF Affected, Keys
  <2>2. CatalogTypeOK'
    BY <1>5, <2>1 DEF FindAffected, Goes, CatalogTypeOK, tables
  <2>3. ASSUME NEW g \in Handlers, Doing(g, "updateChannel")'
        PROVE  channels[request'[g].id] # Null
    BY <1>5, <2>3 DEF FindAffected, Goes, CatalogTypeOK, UpdatesExisting, Doing, Purging
  <2> QED BY <1>5, <2>2, <2>3, SoundAlone DEF FindAffected
<1>6. CASE DeleteAsset(h)
  <2>1. request[h].id \in AssetIds
    BY <1>0, <1>6, RequestFields DEF DeleteAsset, Doing
  <2>2. CatalogTypeOK'
    BY <1>6, <2>1 DEF DeleteAsset, Goes, CatalogTypeOK
  <2>3. OnAir' /\ RefersToAssets'
    BY <1>6, <2>1 DEF DeleteAsset, OnAir, RefersToAssets, CatalogTypeOK
  <2>4. UpdatesExisting'
    BY <1>6 DEF DeleteAsset, Goes, UpdatesExisting, CatalogTypeOK, Doing
  <2> QED BY <2>2, <2>3, <2>4
<1>7. CASE WriteSchedule(h)
  <2> DEFINE s == request[h].id
             a == request[h].asset
  <2>1. s \in ScheduleIds /\ a \in AssetIds /\ a # Null
    BY <1>0, <1>7, RequestFields, NullAssumption DEF WriteSchedule, Doing
  <2>2. Purging({ScheduleChannel[s]}) \in Request \cup {Null}
    BY <2>1, PurgingType, ScheduleChannelAssumption DEF Keys
  <2>3. \A g \in Handlers : Counted(g, s) \in Request \cup {Null}
    <3> SUFFICES ASSUME NEW g \in Handlers, Doing(g, "deleteAsset")
                 PROVE  Counted(g, s) \in Request
      BY DEF Counted, CatalogTypeOK
    <3>1. request[g] \in [op : {"deleteAsset"}, id : AssetIds, since : SUBSET ScheduleIds]
      BY DEF CatalogTypeOK, Doing, Request
    <3>2. Counted(g, s) \in [op : {"deleteAsset"}, id : AssetIds, since : SUBSET ScheduleIds]
      BY <2>1, <3>1 DEF Counted
    <3> QED BY <3>2 DEF Request
  <2>4. CatalogTypeOK'
    BY <1>7, <2>1, <2>2, <2>3 DEF WriteSchedule, CatalogTypeOK
  <2>5. OnAir' /\ RefersToAssets'
    BY <1>7, <2>1 DEF WriteSchedule, OnAir, RefersToAssets, CatalogTypeOK
  <2>6. ASSUME NEW g \in Handlers, Doing(g, "updateChannel")'
        PROVE  channels'[request'[g].id] # Null
    <3>1. g # h
      BY <1>7, <2>6 DEF WriteSchedule, Doing, Purging
    <3>2. request'[g] = Counted(g, s)
      BY <1>7, <3>1 DEF WriteSchedule
    <3>3. CASE Doing(g, "deleteAsset")
      <4>1. request[g] \in [op : {"deleteAsset"}, id : AssetIds, since : SUBSET ScheduleIds]
        BY <3>3 DEF CatalogTypeOK, Doing, Request
      <4> QED BY <2>6, <3>2, <3>3, <4>1 DEF Doing, Counted
    <3>4. CASE ~Doing(g, "deleteAsset")
      BY <1>7, <2>6, <3>2, <3>4 DEF WriteSchedule, Doing, Counted, UpdatesExisting
    <3> QED BY <3>3, <3>4
  <2> QED BY <2>4, <2>5, <2>6 DEF UpdatesExisting
<1> QED BY <1>1, <1>2, <1>3, <1>4, <1>5, <1>6, <1>7

LEMMA SoundBegins ==
    ASSUME Sound, NEW h \in Handlers,
           \/ CreateChannel(h) \/ UpdateChannel(h) \/ RemoveChannel(h)
           \/ UpdateAsset(h) \/ RemoveAsset(h) \/ TakeAsset(h)
    PROVE  Sound'
<1>1. CASE CreateChannel(h)
  <2>1. PICK c \in ChannelIds, body \in ChannelBodies :
          Decide(h, [op |-> "insertChannel", id |-> c, body |-> body])
    BY <1>1 DEF CreateChannel
  <2>2. [op |-> "insertChannel", id |-> c, body |-> body] \in Request
    BY BodiesAssumption DEF Request
  <2> QED BY <2>1, <2>2, SoundDecide
<1>2. CASE UpdateChannel(h)
  <2>1. PICK c \in ChannelIds, body \in ChannelBodies :
          /\ channels[c] # Null
          /\ Decide(h, [op |-> "updateChannel", id |-> c, body |-> body])
    BY <1>2 DEF UpdateChannel
  <2>2. [op |-> "updateChannel", id |-> c, body |-> body] \in Request
    BY BodiesAssumption DEF Request
  <2> QED BY <2>1, <2>2, SoundDecide
<1>3. CASE RemoveChannel(h)
  <2> DEFINE body == [epgId |-> Absent, active |-> FALSE]
  <2>1. PICK c \in ChannelIds :
          channels[c] # Null /\ Decide(h, [op |-> "updateChannel", id |-> c, body |-> body])
    BY <1>3 DEF RemoveChannel
  <2>2. [op |-> "updateChannel", id |-> c, body |-> body] \in Request
    BY DEF Request, ChannelBody
  <2> QED BY <2>1, <2>2, SoundDecide
<1>4. CASE UpdateAsset(h)
  <2>1. PICK a \in AssetIds, body \in AssetBodies :
          Decide(h, [op |-> "updateAsset", id |-> a, body |-> body])
    BY <1>4 DEF UpdateAsset
  <2>2. [op |-> "updateAsset", id |-> a, body |-> body] \in Request
    BY BodiesAssumption DEF Request
  <2> QED BY <2>1, <2>2, SoundDecide
<1>5. CASE RemoveAsset(h)
  <2>1. PICK a \in AssetIds : Decide(h, [op |-> "deleteAsset", id |-> a, since |-> {}])
    BY <1>5 DEF RemoveAsset
  <2>2. [op |-> "deleteAsset", id |-> a, since |-> {}] \in Request
    BY DEF Request
  <2> QED BY <2>1, <2>2, SoundDecide
<1>6. CASE TakeAsset(h)
  <2>1. PICK s \in ScheduleIds, a \in AssetIds :
          Decide(h, [op |-> "updateSchedule", id |-> s, asset |-> a])
    BY <1>6 DEF TakeAsset
  <2>2. [op |-> "updateSchedule", id |-> s, asset |-> a] \in Request
    BY DEF Request
  <2> QED BY <2>1, <2>2, SoundDecide
<1> QED BY <1>1, <1>2, <1>3, <1>4, <1>5, <1>6

\* The steps that change no table: errors, purges, the public API and the TTL.
Quiet ==
    \/ \E h \in Handlers : WriteFails(h) \/ Purge(h)
    \/ \E r \in Readers : Public(r)
    \/ \E k \in Keys : Expire(k)
    \/ UNCHANGED vars

LEMMA SoundQuiet == Sound /\ Quiet => Sound'
<1> SUFFICES ASSUME Sound, Quiet PROVE Sound'
  OBVIOUS
<1> USE DEF Sound
<1>1. ASSUME NEW h \in Handlers, WriteFails(h) PROVE Sound'
  <2>1. CatalogTypeOK'
    BY <1>1 DEF WriteFails, Goes, CatalogTypeOK, tables
  <2>2. ASSUME NEW g \in Handlers, Doing(g, "updateChannel")'
        PROVE  channels[request'[g].id] # Null
    BY <1>1, <2>2 DEF WriteFails, Goes, CatalogTypeOK, UpdatesExisting, Doing
  <2> QED BY <1>1, <2>1, <2>2, SoundAlone DEF WriteFails
<1>2. ASSUME NEW h \in Handlers, Purge(h) PROVE Sound'
  <2>1. request[h] \in Request /\ request[h].keys \in SUBSET Keys
    BY <1>2, RequestFields DEF Purge, Doing, CatalogTypeOK
  <2>2. PICK k \in request[h].keys :
          /\ cache' = [cache EXCEPT ![k] = Null]
          /\ request' = [request EXCEPT ![h] = Purging(request[h].keys \ {k})]
    BY <1>2 DEF Purge, Goes
  <2>3. Purging(request[h].keys \ {k}) \in Request \cup {Null}
    BY <2>1, PurgingType
  <2>4. CatalogTypeOK'
    BY <1>2, <2>1, <2>2, <2>3 DEF Purge, CatalogTypeOK, tables
  <2>5. ASSUME NEW g \in Handlers, Doing(g, "updateChannel")'
        PROVE  channels[request'[g].id] # Null
    BY <2>2, <2>5 DEF CatalogTypeOK, UpdatesExisting, Doing, Purging
  <2> QED BY <1>2, <2>4, <2>5, SoundAlone DEF Purge
<1>3. ASSUME NEW r \in Readers, Public(r) PROVE Sound'
  <2>1. CASE Miss(r)
    <3>1. CatalogTypeOK'
      BY <2>1 DEF Miss, CatalogTypeOK, tables, Reader
    <3> QED BY <2>1, <3>1, SoundAlone DEF Miss, UpdatesExisting, Doing
  <2>2. CASE ReadTables(r)
    <3>1. reader[r] \in Reader
      BY <2>2 DEF ReadTables, CatalogTypeOK
    <3>2. Shown(reader[r].key) \in SUBSET (ListEntry \cup GuideEntry)
      BY <3>1, ShownType DEF OnAir, RefersToAssets, Reader
    <3>3. CatalogTypeOK'
      BY <2>2, <3>1, <3>2 DEF ReadTables, CatalogTypeOK, tables, Reader
    <3> QED BY <2>2, <3>3, SoundAlone DEF ReadTables, UpdatesExisting, Doing
  <2>3. CASE Fill(r)
    <3> DEFINE k == reader[r].key
               late == reader[r].rows # Shown(k)
               response == [rows |-> IF late THEN {} ELSE reader[r].rows, late |-> late]
    <3>1. reader[r] \in Reader
      BY <2>3 DEF Fill, CatalogTypeOK
    <3>2. response \in Response
      BY <3>1 DEF Response, Reader
    <3>3. cache' = [cache EXCEPT ![k] = response]
      BY <2>3 DEF Fill
    <3>4. CatalogTypeOK'
      BY <2>3, <3>1, <3>2, <3>3 DEF Fill, CatalogTypeOK, tables, Reader
    <3> QED BY <2>3, <3>4, SoundAlone DEF Fill, UpdatesExisting, Doing
  <2> QED BY <1>3, <2>1, <2>2, <2>3 DEF Public
<1>4. ASSUME NEW k \in Keys, Expire(k) PROVE Sound'
  <2>1. CatalogTypeOK'
    BY <1>4 DEF Expire, CatalogTypeOK, tables
  <2> QED BY <1>4, <2>1, SoundAlone DEF Expire, UpdatesExisting, Doing
<1>5. CASE UNCHANGED vars
  <2>1. CatalogTypeOK'
    BY <1>5 DEF CatalogTypeOK, vars
  <2> QED BY <1>5, <2>1, SoundAlone DEF vars, tables, UpdatesExisting, Doing
<1> QED BY <1>1, <1>2, <1>3, <1>4, <1>5 DEF Quiet

LEMMA SoundNext == Sound /\ [Next]_vars => Sound'
BY SoundBegins, SoundWrites, SoundQuiet
DEF Next, ChannelsService, AssetsService, SchedulesService, Quiet

\* Every variable keeps its type: handlers hold well formed statements, the
\* tables rows and the cache responses.
THEOREM CatalogTypeCorrect == Spec => []CatalogTypeOK
<1>1. Init => Sound
  BY SoundInit
<1>2. Sound /\ [Next]_vars => Sound'
  BY SoundNext
<1>3. Sound => CatalogTypeOK
  BY DEF Sound
<1> QED BY <1>1, <1>2, <1>3, PTL DEF Spec

\* Foreign keys hold: schedules are on channels that are there and refer to
\* assets that are there, whatever deletions race with them.
THEOREM CatalogSound == Spec => []Sound
<1>1. Init => Sound
  BY SoundInit
<1>2. Sound /\ [Next]_vars => Sound'
  BY SoundNext
<1> QED BY <1>1, <1>2, PTL DEF Spec

-----------------------------------------------------------------------------
(* The unique index, and only the index.                                   *)

LEMMA EpgIdsUniqueNext == Sound /\ EpgIdsUnique /\ [Next]_vars => EpgIdsUnique'
<1> SUFFICES ASSUME Sound, EpgIdsUnique, [Next]_vars
             PROVE  EpgIdsUnique'
  OBVIOUS
<1>1. ASSUME NEW c \in ChannelIds, NEW row \in ChannelRow, UniqueIndex(row.epgId, c),
             channels' = [channels EXCEPT ![c] = row]
      PROVE  EpgIdsUnique'
  <2>1. row.epgId # Null =>
          \A d \in ChannelIds \ {c} : channels[d] # Null => channels[d].epgId # row.epgId
    BY <1>1 DEF UniqueIndex, EpgIdAvailable, ChannelRow
  <2>2. \A d \in ChannelIds : channels'[d] = IF d = c THEN row ELSE channels[d]
    BY <1>1 DEF Sound, CatalogTypeOK
  <2> QED BY <2>1, <2>2 DEF EpgIdsUnique
<1>2. ASSUME NEW h \in Handlers, InsertChannel(h) PROVE EpgIdsUnique'
  <2>1. request[h] \in Request
    BY <1>2 DEF InsertChannel, Doing, Sound, CatalogTypeOK
  <2>2. ChannelAfter(NewChannel, request[h].body) \in ChannelRow /\ request[h].id \in ChannelIds
    BY <1>2, <2>1, RequestFields, RowsAfter DEF InsertChannel, Doing
  <2> QED BY <1>1, <1>2, <2>2 DEF InsertChannel
<1>3. ASSUME NEW h \in Handlers, WriteChannel(h) PROVE EpgIdsUnique'
  <2>1. request[h] \in Request
    BY <1>3 DEF WriteChannel, Doing, Sound, CatalogTypeOK
  <2>2. request[h].id \in ChannelIds /\ request[h].body \in ChannelBody
    BY <1>3, <2>1, RequestFields DEF WriteChannel, Doing
  <2>3. channels[request[h].id] \in ChannelRow
    BY <1>3, <2>2 DEF WriteChannel, Sound, UpdatesExisting, CatalogTypeOK
  <2>4. ChannelAfter(channels[request[h].id], request[h].body) \in ChannelRow
    BY <2>2, <2>3, RowsAfter
  <2> QED BY <1>1, <1>3, <2>2, <2>4 DEF WriteChannel
<1>4. CASE UNCHANGED channels
  BY <1>4 DEF EpgIdsUnique
<1> QED
  BY <1>2, <1>3, <1>4
  DEF Next, vars, tables, ChannelsService, AssetsService, SchedulesService, Public,
      CreateChannel, UpdateChannel, RemoveChannel, CreateAsset, UpdateAsset, RemoveAsset,
      TakeAsset, Decide, WriteAsset, FindAffected, DeleteAsset, WriteSchedule, WriteFails,
      Purge, Miss, ReadTables, Fill, Expire

\* No two channels have one epgId, for any number of requests at the same time.
THEOREM EpgIdsStayUnique == Spec => []EpgIdsUnique
<1>1. Init => EpgIdsUnique
  BY DEF Init, EpgIdsUnique, NewChannel
<1>2. Sound /\ EpgIdsUnique /\ [Next]_vars => EpgIdsUnique'
  BY EpgIdsUniqueNext
<1> QED BY <1>1, <1>2, CatalogSound, PTL DEF Spec

-----------------------------------------------------------------------------
(* What a deletion may take: whoever uses the asset of a deletion that has *)
(* counted has been written since.                                         *)

CountedSince ==
    \A h \in Handlers, s \in ScheduleIds :
        Doing(h, "deleteAsset") /\ uses[s] = request[h].id => s \in request[h].since

LEMMA CountedSinceNext == Sound /\ CountedSince /\ [Next]_vars => CountedSince'
<1> SUFFICES ASSUME Sound, CountedSince, [Next]_vars,
                    NEW g \in Handlers, NEW s \in ScheduleIds,
                    Doing(g, "deleteAsset")', uses'[s] = request'[g].id
             PROVE  s \in request'[g].since
  BY DEF CountedSince
<1>1. CASE request'[g] = request[g] /\ uses'[s] = uses[s]
  BY <1>1 DEF CountedSince, Doing
<1>2. ASSUME NEW h \in Handlers, NEW r \in Request, Decide(h, r), r.op # "deleteAsset"
      PROVE  s \in request'[g].since
  BY <1>1, <1>2 DEF Decide, Goes, Doing, tables, Sound, CatalogTypeOK
<1>3. ASSUME NEW h \in Handlers, RemoveAsset(h) PROVE s \in request'[g].since
  BY <1>1, <1>3 DEF RemoveAsset, Unused, Decide, Goes, Doing, tables, Sound, CatalogTypeOK
<1>4. ASSUME NEW h \in Handlers, WriteSchedule(h) PROVE s \in request'[g].since
  <2>1. g # h
    BY <1>4 DEF WriteSchedule, Doing, Purging, Sound, CatalogTypeOK
  <2> DEFINE t == request[h].id
  <2>2. request'[g] = Counted(g, t)
    BY <1>4, <2>1 DEF WriteSchedule
  <2>3. Doing(g, "deleteAsset")
    BY <2>2 DEF Doing, Counted
  <2>4. request[g] \in [op : {"deleteAsset"}, id : AssetIds, since : SUBSET ScheduleIds]
    BY <2>3 DEF Sound, CatalogTypeOK, Doing, Request
  <2>5. request'[g].id = request[g].id /\ request'[g].since = request[g].since \cup {t}
    BY <2>2, <2>3, <2>4 DEF Counted
  <2>6. s # t => uses'[s] = uses[s]
    BY <1>4 DEF WriteSchedule, Sound, CatalogTypeOK
  <2> QED BY <2>3, <2>5, <2>6 DEF CountedSince
<1>5. ASSUME NEW h \in Handlers, DeleteAsset(h) PROVE s \in request'[g].since
  <2>1. g # h /\ request'[g] = request[g]
    BY <1>5 DEF DeleteAsset, Goes, Doing, Sound, CatalogTypeOK
  <2>2. request[g] \in Request /\ request[g].id \in AssetIds
    BY <2>1, RequestFields DEF Doing, Sound, CatalogTypeOK
  <2>3. uses'[s] = uses[s]
    BY <1>5, <2>1, <2>2, NullAssumption DEF DeleteAsset
  <2> QED BY <1>1, <2>1, <2>3
<1>6. ASSUME NEW h \in Handlers,
             \/ InsertChannel(h) \/ WriteChannel(h) \/ WriteAsset(h) \/ FindAffected(h)
             \/ WriteFails(h) \/ Purge(h) \/ CreateAsset(h)
      PROVE  s \in request'[g].since
  BY <1>1, <1>6
  DEF InsertChannel, WriteChannel, WriteAsset, FindAffected, WriteFails, Purge, CreateAsset,
      Goes, Doing, Purging, tables, Sound, CatalogTypeOK
<1>7. CASE UNCHANGED <<uses, request>>
  BY <1>1, <1>7
<1>8. ASSUME NEW h \in Handlers,
             CreateChannel(h) \/ UpdateChannel(h) \/ RemoveChannel(h) \/ UpdateAsset(h) \/ TakeAsset(h)
      PROVE  s \in request'[g].since
  BY <1>1, <1>8
  DEF CreateChannel, UpdateChannel, RemoveChannel, UpdateAsset, TakeAsset,
      Decide, Goes, Doing, tables, Sound, CatalogTypeOK
<1> QED
  BY <1>3, <1>4, <1>5, <1>6, <1>7, <1>8
  DEF Next, vars, tables, ChannelsService, AssetsService, SchedulesService, Public,
      Miss, ReadTables, Fill, Expire

\* A deletion takes its asset only from schedules written after it counted.
THEOREM DeletionsSpareUsers == Spec => DeletionSparesUsers
<1> DEFINE Spares ==
      \A s \in ScheduleIds :
         uses[s] # Null /\ uses'[s] = Null =>
            \E h \in Handlers :
                Doing(h, "deleteAsset") /\ request[h].id = uses[s] /\ s \in request[h].since
<1>1. Init => CountedSince
  BY DEF Init, CountedSince, Doing
<1>2. Sound /\ CountedSince /\ [Next]_vars => CountedSince'
  BY CountedSinceNext
<1>3. Sound /\ CountedSince /\ [Next]_vars => [Spares]_vars
  <2> SUFFICES ASSUME Sound, CountedSince, Next PROVE Spares
    OBVIOUS
  <2>1. ASSUME NEW h \in Handlers, DeleteAsset(h) PROVE Spares
    BY <2>1 DEF DeleteAsset, CountedSince
  <2>2. ASSUME NEW h \in Handlers, WriteSchedule(h) PROVE Spares
    <3>1. request[h].asset # Null
      BY <2>2, RequestFields, NullAssumption DEF WriteSchedule, Doing, Sound, CatalogTypeOK
    <3> QED BY <2>2, <3>1 DEF WriteSchedule, Sound, CatalogTypeOK
  <2>3. CASE UNCHANGED uses
    BY <2>3
  <2> QED
    BY <2>1, <2>2, <2>3
    DEF Next, tables, ChannelsService, AssetsService, SchedulesService, Public,
        CreateChannel, UpdateChannel, RemoveChannel, CreateAsset, UpdateAsset, RemoveAsset,
        TakeAsset, Decide, InsertChannel, WriteChannel, WriteAsset, FindAffected, WriteFails,
        Purge, Miss, ReadTables, Fill, Expire
<1> QED BY <1>1, <1>2, <1>3, CatalogSound, PTL DEF Spec, DeletionSparesUsers

-----------------------------------------------------------------------------
(* The list of channels is current.                                        *)

\* Only a purge of the list takes the list out of what a handler will purge.
ListPurger(h) == Doing(h, "purge") /\ ChannelList \in request[h].keys

LEMMA ListPurgerIs ==
    Sound => \A h \in Handlers : ChannelList \in WillPurge(h) <=> ListPurger(h)
BY KeysAssumption, ScheduleChannelAssumption DEF WillPurge, ListPurger, Doing, Affected

LEMMA ListPurgerKept ==
    ASSUME Sound, Next, NEW g \in Handlers, ListPurger(g)
    PROVE  ListPurger(g)' \/ cache'[ChannelList] = Null
<1> USE DEF ListPurger, Doing
<1>1. request[g] \in Request /\ request[g].keys \in SUBSET Keys
  BY RequestFields DEF Sound, CatalogTypeOK
<1>2. CASE request'[g] = request[g]
  BY <1>2
<1>3. CASE Purge(g)
  <2>1. PICK k \in request[g].keys :
          /\ cache' = [cache EXCEPT ![k] = Null]
          /\ request' = [request EXCEPT ![g] = Purging(request[g].keys \ {k})]
    BY <1>3 DEF Purge, Goes
  <2>2. request'[g] = Purging(request[g].keys \ {k})
    BY <2>1 DEF Sound, CatalogTypeOK
  <2>3. CASE k = ChannelList
    BY <1>1, <2>1, <2>3 DEF Sound, CatalogTypeOK
  <2>4. CASE k # ChannelList
    BY <1>1, <2>2, <2>4, PurgingSome
  <2> QED BY <2>3, <2>4
<1>4. ASSUME NEW h \in Handlers, WriteSchedule(h) PROVE request'[g] = request[g]
  BY <1>4 DEF WriteSchedule, Counted
<1>5. ASSUME NEW h \in Handlers,
             \/ ChannelsService(h) \/ AssetsService(h) \/ TakeAsset(h)
             \/ WriteFails(h) \/ (Purge(h) /\ h # g)
      PROVE  request'[g] = request[g]
  BY <1>5
  DEF ChannelsService, AssetsService, TakeAsset, CreateChannel, UpdateChannel, RemoveChannel,
      InsertChannel, WriteChannel, CreateAsset, UpdateAsset, RemoveAsset, WriteAsset,
      FindAffected, DeleteAsset, WriteFails, Purge, Decide, Goes, Sound, CatalogTypeOK
<1>6. CASE UNCHANGED request
  BY <1>6
<1> QED
  BY <1>2, <1>3, <1>4, <1>5, <1>6
  DEF Next, SchedulesService, Public, Miss, ReadTables, Fill, Expire

\* A response that is there after a step was there before, or has just been
\* stored and is right, or late.
LEMMA OutdatedBefore ==
    ASSUME Sound, Next, NEW k \in Keys, Outdated(k)', Shown(k)' = Shown(k)
    PROVE  Outdated(k)
<1>1. cache'[k] = cache[k] => Outdated(k)
  BY DEF Outdated
<1>2. ASSUME NEW h \in Handlers, Purge(h) PROVE cache'[k] = cache[k]
  BY <1>2 DEF Purge, Outdated, Sound, CatalogTypeOK
<1>3. ASSUME NEW r \in Readers, Fill(r) PROVE cache'[k] = cache[k]
  BY <1>3 DEF Fill, Outdated, Sound, CatalogTypeOK
<1>4. ASSUME NEW j \in Keys, Expire(j) PROVE cache'[k] = cache[k]
  BY <1>4 DEF Expire, Outdated, Sound, CatalogTypeOK
<1>5. CASE UNCHANGED cache
  BY <1>1, <1>5
<1> QED
  BY <1>1, <1>2, <1>3, <1>4, <1>5
  DEF Next, ChannelsService, AssetsService, SchedulesService, Public,
      CreateChannel, UpdateChannel, RemoveChannel, CreateAsset, UpdateAsset, RemoveAsset,
      TakeAsset, Decide, InsertChannel, WriteChannel, WriteAsset, FindAffected, DeleteAsset,
      WriteSchedule, WriteFails, Miss, ReadTables

LEMMA ListIsCurrentNext == Sound /\ ListIsCurrent /\ [Next]_vars => ListIsCurrent'
<1> SUFFICES ASSUME Sound, ListIsCurrent, [Next]_vars, Outdated(ChannelList)'
             PROVE  \E h \in Handlers : ListPurger(h)'
  <2>1. Sound' => \A h \in Handlers : (ChannelList \in WillPurge(h))' <=> ListPurger(h)'
    BY KeysAssumption, ScheduleChannelAssumption DEF WillPurge, ListPurger, Doing, Affected
  <2> QED BY <2>1, SoundNext DEF ListIsCurrent
<1>1. CASE UNCHANGED vars
  BY <1>1, ListPurgerIs
  DEF vars, tables, ListIsCurrent, ListPurger, Doing, Outdated, Shown, ShownList
<1>2. CASE Next
  <2>1. ASSUME NEW h \in Handlers, InsertChannel(h) \/ WriteChannel(h) PROVE ListPurger(h)'
    <3>1. request[h] \in Request /\ request[h].id \in ChannelIds
      BY <2>1, RequestFields DEF InsertChannel, WriteChannel, Doing, Sound, CatalogTypeOK
    <3>2. PICK keys \in SUBSET Keys :
            ChannelList \in keys /\ request' = [request EXCEPT ![h] = Purging(keys)]
      BY <2>1, <3>1
      DEF InsertChannel, WriteChannel, Goes, CreateChannelPurges, UpdateChannelPurges, Keys
    <3>3. request'[h] = Purging(keys)
      BY <3>2 DEF Sound, CatalogTypeOK
    <3> QED BY <3>2, <3>3, PurgingSome DEF ListPurger, Doing
  <2>2. CASE UNCHANGED channels
    <3>1. Shown(ChannelList)' = Shown(ChannelList)
      BY <2>2 DEF Shown, ShownList
    <3>2. Outdated(ChannelList)
      BY <1>2, <3>1, OutdatedBefore DEF Keys
    <3>3. PICK g \in Handlers : ListPurger(g)
      BY <3>2, ListPurgerIs DEF ListIsCurrent
    <3> QED BY <1>2, <3>3, ListPurgerKept DEF Outdated
  <2> QED
    BY <1>2, <2>1, <2>2
    DEF Next, tables, ChannelsService, AssetsService, SchedulesService, Public,
        CreateChannel, UpdateChannel, RemoveChannel, CreateAsset, UpdateAsset, RemoveAsset,
        TakeAsset, Decide, WriteAsset, FindAffected, DeleteAsset, WriteSchedule, WriteFails,
        Purge, Miss, ReadTables, Fill, Expire
<1> QED BY <1>1, <1>2

\* While the list of channels is wrong though it was right when it was stored,
\* a handler is about to delete it.
THEOREM ListStaysCurrent == Spec => []ListIsCurrent
<1>1. Init => ListIsCurrent
  BY DEF Init, ListIsCurrent, Outdated, Keys
<1>2. Sound /\ ListIsCurrent /\ [Next]_vars => ListIsCurrent'
  BY ListIsCurrentNext
<1> QED BY <1>1, <1>2, CatalogSound, PTL DEF Spec

-----------------------------------------------------------------------------
(* The guide of a channel is current.  An INSERT is about a channel that    *)
(* is not there, so that no schedule shows it.                              *)

\* c is about to be purged, or a deletion has taken an asset from it.
Excused(c) ==
    \/ \E h \in Handlers : c \in WillPurge(h)
    \/ \E s \in lost : ScheduleChannel[s] = c

\* A handler that is about to purge the guide of c keeps at it through every
\* step that leaves its request, and the schedules of c, alone.
LEMMA WillPurgeKept ==
    ASSUME NEW g \in Handlers, NEW c \in ChannelIds, c \in WillPurge(g),
           request'[g] = request[g],
           \A s \in ScheduleIds : ScheduleChannel[s] = c => uses'[s] = uses[s]
    PROVE  c \in WillPurge(g)'
<1>1. CASE Doing(g, "purge")
  BY <1>1 DEF WillPurge, Doing
<1>2. CASE ~Doing(g, "purge")
  <2>1. Doing(g, "findAffected") /\ c \in Affected(request[g].id)
    BY <1>2 DEF WillPurge
  <2>2. PICK s \in ScheduleIds : uses[s] = request[g].id /\ ScheduleChannel[s] = c
    BY <2>1 DEF Affected
  <2>3. c \in Affected(request[g].id)'
    BY <2>2 DEF Affected
  <2> QED BY <1>2, <2>1, <2>3 DEF WillPurge, Doing
<1> QED BY <1>1, <1>2

\* Through every step of another request that leaves the schedules of c alone,
\* c stays excused, or its guide is deleted.
LEMMA ExcusedKept ==
    ASSUME Sound, NEW h \in Handlers, NEW c \in ChannelIds, Excused(c),
           WillPurge(h) = {},
           \A g \in Handlers \ {h} : WillPurge(g) # {} => request'[g] = request[g],
           \A s \in ScheduleIds : ScheduleChannel[s] = c => uses'[s] = uses[s],
           \A s \in lost : ScheduleChannel[s] = c => s \in lost'
    PROVE  Excused(c)'
<1>1. CASE \E s \in lost : ScheduleChannel[s] = c
  BY <1>1 DEF Excused
<1>2. ASSUME NEW g \in Handlers, c \in WillPurge(g) PROVE Excused(c)'
  <2>1. g # h
    BY <1>2
  <2> QED BY <1>2, <2>1, WillPurgeKept DEF Excused
<1> QED BY <1>1, <1>2 DEF Excused

\* A handler purges what it goes to purge.
LEMMA PurgesNow ==
    ASSUME Sound, NEW h \in Handlers, NEW keys \in SUBSET Keys, NEW c \in keys,
           request'[h] = Purging(keys)
    PROVE  c \in WillPurge(h)'
BY PurgingSome DEF WillPurge, Doing

\* What the guide of c shows depends on c and on the assets of its schedules.
LEMMA ShownGuideSame ==
    ASSUME NEW c \in ChannelIds,
           (\E s \in ScheduleIds : ScheduleChannel[s] = c) => channels'[c] = channels[c],
           \A s \in ScheduleIds : ScheduleChannel[s] = c =>
                /\ uses'[s] = uses[s]
                /\ uses[s] # Null => assets'[uses[s]] = assets[uses[s]]
    PROVE  Shown(c)' = Shown(c)
<1>1. ASSUME NEW s \in ScheduleIds, ScheduleChannel[s] = c
      PROVE  /\ channels'[c].epgId = channels[c].epgId
             /\ (IF uses[s] = Null THEN Null ELSE assets[uses[s]].name)'
                  = (IF uses[s] = Null THEN Null ELSE assets[uses[s]].name)
  BY <1>1
<1>2. ShownGuide(c)' = ShownGuide(c)
  BY <1>1 DEF ShownGuide
<1> QED BY <1>2, KeysAssumption DEF Shown

InsertsFresh ==
    \A h \in Handlers : Doing(h, "insertChannel") =>
        /\ channels[request[h].id] = Null
        /\ \A g \in Handlers \ {h} :
             Doing(g, "insertChannel") => request[g].id # request[h].id

LEMMA InsertsFreshNext == Sound /\ InsertsFresh /\ [Next]_vars => InsertsFresh'
<1> SUFFICES ASSUME Sound, InsertsFresh, [Next]_vars PROVE InsertsFresh'
  OBVIOUS
<1> USE DEF Doing
<1>1. ASSUME UNCHANGED channels,
             \A g \in Handlers : Doing(g, "insertChannel")' => request'[g] = request[g]
      PROVE  InsertsFresh'
  BY <1>1 DEF InsertsFresh
<1>2. ASSUME NEW h \in Handlers, CreateChannel(h) PROVE InsertsFresh'
  <2>1. PICK c \in ChannelIds, body \in ChannelBodies :
          /\ FreshChannel(c)
          /\ request' = [request EXCEPT ![h] = [op |-> "insertChannel", id |-> c, body |-> body]]
    BY <1>2 DEF CreateChannel, Decide, Goes
  <2>2. request[h] = Null /\ UNCHANGED channels
    BY <1>2 DEF CreateChannel, Decide, tables
  <2> QED BY <2>1, <2>2 DEF InsertsFresh, FreshChannel, Sound, CatalogTypeOK
<1>3. ASSUME NEW h \in Handlers, InsertChannel(h) PROVE InsertsFresh'
  <2>1. request'[h] = Purging(CreateChannelPurges)
    BY <1>3 DEF InsertChannel, Goes, Sound, CatalogTypeOK
  <2>2. \A g \in Handlers : Doing(g, "insertChannel")' => g # h /\ request'[g] = request[g]
    BY <1>3, <2>1 DEF InsertChannel, Goes, Purging, Sound, CatalogTypeOK
  <2>3. \A d \in ChannelIds : d # request[h].id => channels'[d] = channels[d]
    BY <1>3 DEF InsertChannel, Sound, CatalogTypeOK
  <2>4. ASSUME NEW g \in Handlers, Doing(g, "insertChannel")'
        PROVE  request[g].id \in ChannelIds /\ request[g].id # request[h].id
    <3>1. request[g] \in Request
      BY <2>2, <2>4 DEF Sound, CatalogTypeOK
    <3> QED BY <1>3, <2>2, <2>4, <3>1, RequestFields DEF InsertsFresh, InsertChannel
  <2> QED BY <2>2, <2>3, <2>4 DEF InsertsFresh
<1>4. ASSUME NEW h \in Handlers, WriteChannel(h) PROVE InsertsFresh'
  <2>1. request'[h] = Purging(UpdateChannelPurges(request[h].id))
    BY <1>4 DEF WriteChannel, Goes, Sound, CatalogTypeOK
  <2>2. \A g \in Handlers : Doing(g, "insertChannel")' => g # h /\ request'[g] = request[g]
    BY <1>4, <2>1 DEF WriteChannel, Goes, Purging, Sound, CatalogTypeOK
  <2>3. \A d \in ChannelIds : d # request[h].id => channels'[d] = channels[d]
    BY <1>4 DEF WriteChannel, Sound, CatalogTypeOK
  <2>4. ASSUME NEW g \in Handlers, Doing(g, "insertChannel")'
        PROVE  request[g].id \in ChannelIds /\ request[g].id # request[h].id
    <3>1. request[g] \in Request
      BY <2>2, <2>4 DEF Sound, CatalogTypeOK
    <3>2. channels[request[h].id] # Null
      BY <1>4 DEF WriteChannel, Sound, UpdatesExisting
    <3> QED BY <2>2, <2>4, <3>1, <3>2, RequestFields DEF InsertsFresh
  <2> QED BY <2>2, <2>3, <2>4 DEF InsertsFresh
<1>5. ASSUME NEW h \in Handlers, WriteSchedule(h) PROVE InsertsFresh'
  <2>1. \A g \in Handlers : Doing(g, "insertChannel")' => request'[g] = request[g]
    <3> SUFFICES ASSUME NEW g \in Handlers, Doing(g, "insertChannel")'
                 PROVE  request'[g] = request[g]
      OBVIOUS
    <3>1. g # h
      BY <1>5 DEF WriteSchedule, Purging
    <3>2. request'[g] = Counted(g, request[h].id)
      BY <1>5, <3>1 DEF WriteSchedule
    <3>3. CASE Doing(g, "deleteAsset")
      <4>1. request[g] \in [op : {"deleteAsset"}, id : AssetIds, since : SUBSET ScheduleIds]
        BY <3>3 DEF Sound, CatalogTypeOK, Request
      <4> QED BY <3>2, <3>3, <4>1 DEF Counted
    <3> QED BY <3>2, <3>3 DEF Counted
  <2> QED BY <1>1, <1>5, <2>1 DEF WriteSchedule
<1>6. ASSUME NEW h \in Handlers,
             \/ UpdateChannel(h) \/ RemoveChannel(h) \/ AssetsService(h) \/ TakeAsset(h)
             \/ WriteFails(h) \/ Purge(h)
      PROVE  InsertsFresh'
  <2>1. UNCHANGED channels
    BY <1>6
    DEF AssetsService, UpdateChannel, RemoveChannel, CreateAsset, UpdateAsset, RemoveAsset,
        WriteAsset, FindAffected, DeleteAsset, TakeAsset, WriteFails, Purge, Decide, tables
  <2>2. \A g \in Handlers : Doing(g, "insertChannel")' => request'[g] = request[g]
    BY <1>6
    DEF AssetsService, UpdateChannel, RemoveChannel, CreateAsset, UpdateAsset, RemoveAsset,
        WriteAsset, FindAffected, DeleteAsset, TakeAsset, WriteFails, Purge, Decide, Goes,
        Purging, Sound, CatalogTypeOK
  <2> QED BY <1>1, <2>1, <2>2
<1>7. CASE UNCHANGED <<channels, request>>
  BY <1>1, <1>7
<1> QED
  BY <1>2, <1>3, <1>4, <1>5, <1>6, <1>7
  DEF Next, vars, tables, ChannelsService, SchedulesService, Public, Miss, ReadTables, Fill, Expire

LEMMA GuideIsCurrentNext == Sound /\ InsertsFresh /\ GuideIsCurrent /\ [Next]_vars => GuideIsCurrent'
<1> SUFFICES ASSUME Sound, InsertsFresh, GuideIsCurrent, [Next]_vars,
                    NEW c \in ChannelIds, Outdated(c)'
             PROVE  Excused(c)'
  BY DEF GuideIsCurrent, Excused
<1>0. c \in Keys
  BY DEF Keys
<1>1. CASE UNCHANGED vars
  BY <1>1
  DEF vars, tables, GuideIsCurrent, Excused, WillPurge, Doing, Affected, Outdated, Shown,
      ShownList, ShownGuide
<1>2. CASE Next
  <2>1. ASSUME NEW h \in Handlers, WillPurge(h) = {}, Shown(c)' = Shown(c),
               \A g \in Handlers \ {h} : WillPurge(g) # {} => request'[g] = request[g],
               \A s \in ScheduleIds : ScheduleChannel[s] = c => uses'[s] = uses[s],
               \A s \in lost : ScheduleChannel[s] = c => s \in lost'
        PROVE  Excused(c)'
    BY <1>0, <1>2, <2>1, OutdatedBefore, ExcusedKept DEF GuideIsCurrent, Excused
  <2>2. ASSUME UNCHANGED tables PROVE Shown(c)' = Shown(c)
    BY <2>2, ShownGuideSame DEF tables
  <2>3. ASSUME NEW h \in Handlers, NEW r, Decide(h, r) PROVE Excused(c)'
    BY <2>1, <2>2, <2>3 DEF Decide, Goes, WillPurge, Doing, tables, Sound, CatalogTypeOK
  <2>4. ASSUME NEW h \in Handlers, WriteFails(h) PROVE Excused(c)'
    <3>1. WillPurge(h) = {}
      BY <2>4 DEF WriteFails, WillPurge, Doing
    <3> QED BY <2>1, <2>2, <2>4, <3>1 DEF WriteFails, Goes, tables, Sound, CatalogTypeOK
  <2>5. ASSUME NEW h \in Handlers, InsertChannel(h) PROVE Excused(c)'
    <3>1. WillPurge(h) = {}
      BY <2>5 DEF InsertChannel, WillPurge, Doing
    <3>2. (\E s \in ScheduleIds : ScheduleChannel[s] = c) => channels'[c] = channels[c]
      BY <2>5 DEF InsertChannel, InsertsFresh, Sound, OnAir, CatalogTypeOK
    <3>3. Shown(c)' = Shown(c)
      BY <2>5, <3>2, ShownGuideSame DEF InsertChannel
    <3> QED BY <2>1, <2>5, <3>1, <3>3 DEF InsertChannel, Goes, Sound, CatalogTypeOK
  <2>6. ASSUME NEW h \in Handlers, WriteChannel(h) PROVE Excused(c)'
    <3>1. WillPurge(h) = {}
      BY <2>6 DEF WriteChannel, WillPurge, Doing
    <3>2. CASE c = request[h].id
      <4>1. request'[h] = Purging({ChannelList, c})
        BY <2>6, <3>2 DEF WriteChannel, Goes, UpdateChannelPurges, Sound, CatalogTypeOK
      <4> QED BY <1>0, <4>1, PurgesNow DEF Excused, Keys
    <3>3. CASE c # request[h].id
      <4>1. Shown(c)' = Shown(c)
        BY <2>6, <3>3, ShownGuideSame DEF WriteChannel, Sound, CatalogTypeOK
      <4> QED BY <2>1, <2>6, <3>1, <4>1 DEF WriteChannel, Goes, Sound, CatalogTypeOK
    <3> QED BY <3>2, <3>3
  <2>7. ASSUME NEW h \in Handlers, CreateAsset(h) PROVE Excused(c)'
    <3>1. WillPurge(h) = {}
      BY <2>7 DEF CreateAsset, WillPurge, Doing
    <3>2. Shown(c)' = Shown(c)
      BY <2>7, ShownGuideSame DEF CreateAsset, Sound, RefersToAssets, CatalogTypeOK
    <3> QED BY <2>1, <2>7, <3>1, <3>2 DEF CreateAsset
  <2>8. ASSUME NEW h \in Handlers, WriteAsset(h) PROVE Excused(c)'
    <3> DEFINE a == request[h].id
    <3>1. WillPurge(h) = {}
      BY <2>8 DEF WriteAsset, WillPurge, Doing
    <3>2. CASE c \in Affected(a)
      <4>1. request'[h] = [op |-> "findAffected", id |-> a] /\ request'[h] # Null
        <5>1. request[h] \in Request /\ a \in AssetIds
          BY <2>8, RequestFields DEF WriteAsset, Doing, Sound, CatalogTypeOK
        <5>2. [op |-> "findAffected", id |-> a] \in Request
          BY <5>1 DEF Request
        <5> QED BY <2>8, <5>2, NullAssumption DEF WriteAsset, Goes, Sound, CatalogTypeOK
      <4>2. c \in Affected(request[h].id)'
        BY <2>8, <3>2, <4>1 DEF WriteAsset, Affected
      <4> QED BY <4>1, <4>2 DEF Excused, WillPurge, Doing
    <3>3. CASE c \notin Affected(a)
      <4>1. \A s \in ScheduleIds : ScheduleChannel[s] = c => uses[s] # a
        BY <3>3 DEF Affected
      <4>2. Shown(c)' = Shown(c)
        BY <2>8, <4>1, ShownGuideSame DEF WriteAsset, Sound, CatalogTypeOK
      <4> QED BY <2>1, <2>8, <3>1, <4>2 DEF WriteAsset, Goes, Sound, CatalogTypeOK
    <3> QED BY <3>2, <3>3
  <2>9. ASSUME NEW h \in Handlers, FindAffected(h) PROVE Excused(c)'
    <3>1. Outdated(c) /\ Excused(c)
      BY <1>0, <1>2, <2>2, <2>9, OutdatedBefore DEF FindAffected, GuideIsCurrent, Excused
    <3>2. CASE c \in WillPurge(h)
      <4>1. c \in Affected(request[h].id)
        BY <2>9, <3>2 DEF FindAffected, WillPurge, Doing
      <4>2. Affected(request[h].id) \in SUBSET Keys
        BY ScheduleChannelAssumption DEF Affected, Keys
      <4>3. request'[h] = Purging(Affected(request[h].id))
        BY <2>9 DEF FindAffected, Goes, Sound, CatalogTypeOK
      <4> QED BY <4>1, <4>2, <4>3, PurgesNow DEF Excused
    <3>3. ASSUME NEW g \in Handlers \ {h}, c \in WillPurge(g) PROVE Excused(c)'
      BY <2>9, <3>3, WillPurgeKept DEF Excused, FindAffected, Goes, tables, Sound, CatalogTypeOK
    <3>4. CASE \E s \in lost : ScheduleChannel[s] = c
      BY <2>9, <3>4 DEF Excused, FindAffected, tables
    <3> QED BY <3>1, <3>2, <3>3, <3>4 DEF Excused
  <2>10. ASSUME NEW h \in Handlers, DeleteAsset(h) PROVE Excused(c)'
    <3> DEFINE a == request[h].id
    <3>1. WillPurge(h) = {}
      BY <2>10 DEF DeleteAsset, WillPurge, Doing
    <3>2. CASE \E s \in ScheduleIds : uses[s] = a /\ ScheduleChannel[s] = c
      BY <2>10, <3>2 DEF DeleteAsset, Excused
    <3>3. CASE \A s \in ScheduleIds : ScheduleChannel[s] = c => uses[s] # a
      <4>1. \A s \in ScheduleIds : ScheduleChannel[s] = c => uses'[s] = uses[s]
        BY <2>10, <3>3 DEF DeleteAsset
      <4>2. Shown(c)' = Shown(c)
        BY <2>10, <3>3, <4>1, ShownGuideSame DEF DeleteAsset, Sound, CatalogTypeOK
      <4> QED BY <2>1, <2>10, <3>1, <4>1, <4>2 DEF DeleteAsset, Goes, Sound, CatalogTypeOK
    <3> QED BY <3>2, <3>3
  <2>11. ASSUME NEW h \in Handlers, WriteSchedule(h) PROVE Excused(c)'
    <3> DEFINE s == request[h].id
    <3>1. WillPurge(h) = {}
      BY <2>11 DEF WriteSchedule, WillPurge, Doing
    <3>2. CASE ScheduleChannel[s] = c
      <4>1. request'[h] = Purging({c})
        BY <2>11, <3>2 DEF WriteSchedule
      <4> QED BY <1>0, <4>1, PurgesNow DEF Excused
    <3>3. CASE ScheduleChannel[s] # c
      <4>1. \A t \in ScheduleIds : ScheduleChannel[t] = c => uses'[t] = uses[t]
        BY <2>11, <3>3 DEF WriteSchedule, Sound, CatalogTypeOK
      <4>2. Shown(c)' = Shown(c)
        BY <2>11, <4>1, ShownGuideSame DEF WriteSchedule
      <4>3. \A g \in Handlers \ {h} : WillPurge(g) # {} => request'[g] = request[g]
        BY <2>11 DEF WriteSchedule, Counted, WillPurge, Doing
      <4>4. \A t \in lost : ScheduleChannel[t] = c => t \in lost'
        BY <2>11, <3>3 DEF WriteSchedule
      <4> QED BY <2>1, <3>1, <4>1, <4>2, <4>3, <4>4
    <3> QED BY <3>2, <3>3
  <2>12. ASSUME NEW h \in Handlers, Purge(h) PROVE Excused(c)'
    <3>1. Outdated(c) /\ Excused(c)
      BY <1>0, <1>2, <2>2, <2>12, OutdatedBefore DEF Purge, GuideIsCurrent, Excused
    <3>2. CASE c \in WillPurge(h)
      <4>1. request[h].keys \in SUBSET Keys /\ c \in request[h].keys
        BY <2>12, <3>2, RequestFields DEF Purge, WillPurge, Doing, Sound, CatalogTypeOK
      <4>2. PICK k \in request[h].keys :
              /\ cache' = [cache EXCEPT ![k] = Null]
              /\ request' = [request EXCEPT ![h] = Purging(request[h].keys \ {k})]
        BY <2>12 DEF Purge, Goes
      <4>3. k # c
        BY <1>0, <4>2 DEF Outdated, Sound, CatalogTypeOK
      <4>4. request'[h] = Purging(request[h].keys \ {k})
        BY <4>2 DEF Sound, CatalogTypeOK
      <4> QED BY <4>1, <4>3, <4>4, PurgesNow DEF Excused
    <3>3. ASSUME NEW g \in Handlers \ {h}, c \in WillPurge(g) PROVE Excused(c)'
      BY <2>12, <3>3, WillPurgeKept DEF Excused, Purge, Goes, tables, Sound, CatalogTypeOK
    <3>4. CASE \E t \in lost : ScheduleChannel[t] = c
      BY <2>12, <3>4 DEF Excused, Purge, tables
    <3> QED BY <3>1, <3>2, <3>3, <3>4 DEF Excused
  <2>13. ASSUME UNCHANGED <<tables, request>> PROVE Excused(c)'
    <3>1. Excused(c)
      BY <1>0, <1>2, <2>2, <2>13, OutdatedBefore DEF GuideIsCurrent, Excused
    <3> QED BY <2>13, <3>1 DEF Excused, WillPurge, Doing, Affected, tables
  <2> QED
    BY <1>2, <2>3, <2>4, <2>5, <2>6, <2>7, <2>8, <2>9, <2>10, <2>11, <2>12, <2>13
    DEF Next, ChannelsService, AssetsService, SchedulesService, Public, Miss, ReadTables, Fill,
        Expire, CreateChannel, UpdateChannel, RemoveChannel, UpdateAsset, RemoveAsset, TakeAsset
<1> QED BY <1>1, <1>2

\* While the guide of a channel is wrong though it was right when it was
\* stored, a handler is about to delete it, or a schedule of the channel has
\* lost its asset to a deletion.
THEOREM GuideStaysCurrent == Spec => []GuideIsCurrent
<1>1. Init => GuideIsCurrent /\ InsertsFresh
  BY DEF Init, GuideIsCurrent, InsertsFresh, Outdated, Keys, Doing
<1>2. Sound /\ InsertsFresh /\ [Next]_vars => InsertsFresh'
  BY InsertsFreshNext
<1>3. Sound /\ InsertsFresh /\ GuideIsCurrent /\ [Next]_vars => GuideIsCurrent'
  BY GuideIsCurrentNext
<1> QED BY <1>1, <1>2, <1>3, CatalogSound, PTL DEF Spec
=============================================================================
