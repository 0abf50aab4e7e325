------------------------------ MODULE Catalog ------------------------------
(***************************************************************************)
(* The catalogue behind the schedules: channels (channels.service.ts) and  *)
(* assets (assets.service.ts), with the two public responses that show     *)
(* them, the list of channels and the guide of a channel.                  *)
(*                                                                         *)
(* Every handler decides on what it read, awaits, and writes; what keeps   *)
(* the decision true meanwhile is the database's unique index and foreign  *)
(* key, or nothing.  After a write the handler deletes the responses that  *)
(* show the row.                                                           *)
(*                                                                         *)
(* A schedule is here no more than the asset it refers to, on a channel it *)
(* never leaves, and it is on air; ScheduleService has the rest.  Of a     *)
(* channel's details epgId stands for all that a response shows.  Redis    *)
(* answers and no handler dies: PublicEpg has those faults.                *)
(***************************************************************************)
EXTENDS FiniteSets

CONSTANTS
    Handlers,           \* requests of the admin API in flight
    Readers,            \* requests of the public API in flight
    ChannelIds,         \* uuids of the channels table
    AssetIds,           \* uuids of the assets table
    ScheduleIds,        \* rows of the schedules table
    ScheduleChannel,    \* the channel of each of them
    EpgIds,             \* external names of channels
    Names,              \* names of assets
    ChannelBodies,      \* bodies of POST /channels and PUT /channels/:id
    AssetBodies,        \* bodies of POST /assets and PUT /assets/:id
    ChannelList,        \* the key of the list of channels
    Absent,             \* a field that a body does not have
    Null                \* a column without a value, no row, no request

VARIABLES
    channels,           \* the channels table
    assets,             \* the assets table
    uses,               \* schedules.asset_id
    lost,               \* history: schedules whose asset was deleted
    request,            \* what a handler will do next
    cache,              \* what Redis holds for a key
    reader              \* a public request that missed

tables == <<channels, assets, uses, lost>>
vars == <<channels, assets, uses, lost, request, cache, reader>>

Urls == {"dash", "hls"}
ChannelRow == [epgId : EpgIds \cup {Null}, active : BOOLEAN]
AssetRow == [name : Names, urls : SUBSET Urls]

\* A field is given, null or absent; an absent one is left as it is.
ChannelBody == [epgId : EpgIds \cup {Null, Absent}, active : BOOLEAN \cup {Absent}]
AssetBody == [name : Names \cup {Absent}, urls : [Urls -> {"given", "null", "absent"}]]

Keys == {ChannelList} \cup ChannelIds

\* What a handler has decided on, named by the statement it is about to send.
\* since is history: the schedules written since the deletion has counted.
Request ==
    [op : {"insertChannel", "updateChannel"}, id : ChannelIds, body : ChannelBody]
    \cup [op : {"updateAsset"}, id : AssetIds, body : AssetBody]
    \cup [op : {"findAffected"}, id : AssetIds]
    \cup [op : {"deleteAsset"}, id : AssetIds, since : SUBSET ScheduleIds]
    \cup [op : {"updateSchedule"}, id : ScheduleIds, asset : AssetIds]
    \cup [op : {"purge"}, keys : SUBSET Keys]

\* The rows of the two responses.
ListEntry == [channel : ChannelIds, epgId : EpgIds \cup {Null}]
GuideEntry == [schedule : ScheduleIds, epgId : EpgIds \cup {Null}, asset : Names \cup {Null}]

\* A cached response.  late is history: it was outdated when it was stored, and
\* its rows, which say nothing about what happened since, are dropped.
Response == [rows : SUBSET (ListEntry \cup GuideEntry), late : BOOLEAN]

\* A request that missed; rows is {} until it has read the tables.
Reader == [key : Keys, read : BOOLEAN, rows : SUBSET (ListEntry \cup GuideEntry)]

ASSUME ScheduleChannelAssumption == ScheduleChannel \in [ScheduleIds -> ChannelIds]
ASSUME BodiesAssumption == ChannelBodies \subseteq ChannelBody /\ AssetBodies \subseteq AssetBody
ASSUME KeysAssumption == ChannelList \notin ChannelIds
ASSUME AbsentAssumption == Absent \notin EpgIds \cup Names \cup BOOLEAN \cup {Null}
ASSUME NullAssumption ==
    /\ Null \notin ChannelRow \cup AssetRow \cup AssetIds \cup EpgIds \cup Names
    /\ Null \notin Request \cup Response \cup Reader

CatalogTypeOK ==
    /\ channels \in [ChannelIds -> ChannelRow \cup {Null}]
    /\ assets \in [AssetIds -> AssetRow \cup {Null}]
    /\ uses \in [ScheduleIds -> AssetIds \cup {Null}]
    /\ lost \subseteq ScheduleIds
    /\ request \in [Handlers -> Request \cup {Null}]
    /\ cache \in [Keys -> Response \cup {Null}]
    /\ reader \in [Readers -> Reader \cup {Null}]

-----------------------------------------------------------------------------

\* Mutant: every column is set to what the body has.
ChannelAsGiven(row, body) == [epgId |-> body.epgId, active |-> body.active]

\* prisma.channel.update: the columns whose field is not undefined.
ChannelAfter(row, body) ==
    [epgId  |-> IF body.epgId = Absent THEN row.epgId ELSE body.epgId,
     active |-> IF body.active = Absent THEN row.active ELSE body.active]

\* prisma.channel.create: what an INSERT starts from.
NewChannel == [epgId |-> Null, active |-> TRUE]

\* assertEpgIdAvailable
EpgIdAvailable(epgId, c) ==
    epgId \in EpgIds =>
        \A d \in ChannelIds \ {c} : channels[d] # Null => channels[d].epgId # epgId

\* Mutant: epg_id has a plain index.
PlainIndex(epgId, c) == TRUE

\* The unique index on epg_id, which allows any number of nulls.
UniqueIndex(epgId, c) == EpgIdAvailable(epgId, c)

UrlsAfter(urls, body) ==
    {u \in Urls : body.urls[u] = "given" \/ (body.urls[u] = "absent" /\ u \in urls)}

AssetAfter(row, body) ==
    [name |-> IF body.name = Absent THEN row.name ELSE body.name,
     urls |-> UrlsAfter(row.urls, body)]

\* assertPlayableAsset, of dto.dashUrl ?? existingAsset.dashUrl and so on: a
\* null in the body gives way to what is stored.
PlayableAfter(urls, body) == \E u \in Urls : body.urls[u] = "given" \/ u \in urls

\* Mutant: nobody counts.
UnusedUncounted(a) == TRUE

\* prisma.schedule.count is 0
Unused(a) == \A s \in ScheduleIds : uses[s] # a

\* invalidateScheduleCachesForAsset: the channels of the schedules with asset a.
Affected(a) == {ScheduleChannel[s] : s \in {t \in ScheduleIds : uses[t] = a}}

\* getPublicChannels, for the channels that are active.
ShownList ==
    {[channel |-> c, epgId |-> channels[c].epgId] :
        c \in {d \in ChannelIds : channels[d] # Null /\ channels[d].active}}

\* getPublicSchedules of a channel.
ShownGuide(c) ==
    {[schedule |-> s, epgId |-> channels[c].epgId,
      asset |-> IF uses[s] = Null THEN Null ELSE assets[uses[s]].name] :
        s \in {t \in ScheduleIds : ScheduleChannel[t] = c}}

Shown(k) == IF k = ChannelList THEN ShownList ELSE ShownGuide(k)

\* Channels that have schedules are there, named by nobody yet.
Init ==
    /\ channels = [c \in ChannelIds |->
         IF \E s \in ScheduleIds : ScheduleChannel[s] = c THEN NewChannel ELSE Null]
    /\ assets = [a \in AssetIds |-> Null]
    /\ uses = [s \in ScheduleIds |-> Null]
    /\ lost = {}
    /\ request = [h \in Handlers |-> Null]
    /\ cache = [k \in Keys |-> Null]
    /\ reader = [r \in Readers |-> Null]

-----------------------------------------------------------------------------
(* Up to the write: what a handler reads and refuses.                      *)

\* The handler has decided, or is through when r is Null.
Goes(h, r) == request' = [request EXCEPT ![h] = r]

Decide(h, r) ==
    /\ request[h] = Null
    /\ Goes(h, r)
    /\ UNCHANGED <<tables, cache, reader>>

\* Nobody has the uuid, and no INSERT is about to use it.
FreshChannel(c) ==
    /\ channels[c] = Null
    /\ \A h \in Handlers : request[h] # Null /\ request[h].op = "insertChannel" => request[h].id # c

CreateChannel(h) ==
    \E c \in ChannelIds, body \in ChannelBodies :
        /\ FreshChannel(c)
        /\ EpgIdAvailable(body.epgId, c)
        /\ Decide(h, [op |-> "insertChannel", id |-> c, body |-> body])

UpdateChannel(h) ==
    \E c \in ChannelIds, body \in ChannelBodies :
        /\ channels[c] # Null
        /\ EpgIdAvailable(body.epgId, c)
        /\ Decide(h, [op |-> "updateChannel", id |-> c, body |-> body])

\* DELETE /channels/:id makes the channel inactive and keeps the rest of it.
RemoveChannel(h) ==
    \E c \in ChannelIds :
        /\ channels[c] # Null
        /\ Decide(h, [op |-> "updateChannel", id |-> c,
                      body |-> [epgId |-> Absent, active |-> FALSE]])

UpdateAsset(h) ==
    \E a \in AssetIds, body \in AssetBodies :
        /\ assets[a] # Null
        /\ PlayableAfter(assets[a].urls, body)
        /\ Decide(h, [op |-> "updateAsset", id |-> a, body |-> body])

RemoveAsset(h) ==
    \E a \in AssetIds :
        /\ assets[a] # Null
        /\ Unused(a)
        /\ Decide(h, [op |-> "deleteAsset", id |-> a, since |-> {}])

\* PUT /schedules/:id with an assetId: findAssetById.
TakeAsset(h) ==
    \E s \in ScheduleIds, a \in AssetIds :
        /\ assets[a] # Null
        /\ Decide(h, [op |-> "updateSchedule", id |-> s, asset |-> a])

\* POST /assets: nothing is read before the INSERT, and no response shows an
\* asset that no schedule has.
CreateAsset(h) ==
    /\ request[h] = Null
    /\ \E a \in AssetIds, body \in AssetBodies :
         /\ assets[a] = Null
         /\ body.name \in Names
         /\ PlayableAfter({}, body)
         /\ assets' = [assets EXCEPT ![a] =
                [name |-> body.name, urls |-> UrlsAfter({}, body)]]
    /\ UNCHANGED <<channels, uses, lost, request, cache, reader>>

-----------------------------------------------------------------------------
(* The write, which the database may still refuse, and the purge.          *)

Doing(h, op) == request[h] # Null /\ request[h].op = op

\* Every key is deleted by a call of its own, all of them started at once.
Purging(keys) == IF keys = {} THEN Null ELSE [op |-> "purge", keys |-> keys]

\* Mutant: the change does not show in the guide.
UpdateChannelPurgesList(c) == {ChannelList}

\* The responses that update and remove of ChannelsService delete.
UpdateChannelPurges(c) == {ChannelList, c}

\* Mutant: a channel that is new is in no response.
CreateChannelPurgesNothing == {}

\* The responses that create of ChannelsService deletes.
CreateChannelPurges == {ChannelList}

InsertChannel(h) ==
    /\ Doing(h, "insertChannel")
    /\ LET c   == request[h].id
           row == ChannelAfter(NewChannel, request[h].body)
       IN /\ UniqueIndex(row.epgId, c)
          /\ channels' = [channels EXCEPT ![c] = row]
    /\ Goes(h, Purging(CreateChannelPurges))
    /\ UNCHANGED <<assets, uses, lost, cache, reader>>

WriteChannel(h) ==
    /\ Doing(h, "updateChannel")
    /\ LET c   == request[h].id
           row == ChannelAfter(channels[c], request[h].body)
       IN /\ UniqueIndex(row.epgId, c)
          /\ channels' = [channels EXCEPT ![c] = row]
          /\ Goes(h, Purging(UpdateChannelPurges(c)))
    /\ UNCHANGED <<assets, uses, lost, cache, reader>>

WriteAsset(h) ==
    /\ Doing(h, "updateAsset")
    /\ LET a == request[h].id IN
         /\ assets[a] # Null
         /\ assets' = [assets EXCEPT ![a] = AssetAfter(@, request[h].body)]
         /\ Goes(h, [op |-> "findAffected", id |-> a])
    /\ UNCHANGED <<channels, uses, lost, cache, reader>>

FindAffected(h) ==
    /\ Doing(h, "findAffected")
    /\ Goes(h, Purging(Affected(request[h].id)))
    /\ UNCHANGED <<tables, cache, reader>>

\* The foreign key takes the asset from the schedules that have it by now.
DeleteAsset(h) ==
    /\ Doing(h, "deleteAsset")
    /\ LET a     == request[h].id
           users == {s \in ScheduleIds : uses[s] = a}
       IN /\ assets[a] # Null
          /\ assets' = [assets EXCEPT ![a] = Null]
          /\ uses' = [s \in ScheduleIds |-> IF s \in users THEN Null ELSE uses[s]]
          /\ lost' = lost \cup users
    /\ Goes(h, Null)
    /\ UNCHANGED <<channels, cache, reader>>

\* The deletions that have counted and not yet deleted learn of the use.
Counted(h, s) ==
    IF Doing(h, "deleteAsset") THEN [request[h] EXCEPT !.since = @ \cup {s}]
    ELSE request[h]

WriteSchedule(h) ==
    /\ Doing(h, "updateSchedule")
    /\ LET s == request[h].id
           a == request[h].asset
       IN /\ assets[a] # Null
          /\ uses' = [uses EXCEPT ![s] = a]
          /\ lost' = lost \ {s}
          /\ request' = [g \in Handlers |->
               IF g = h THEN Purging({ScheduleChannel[s]}) ELSE Counted(g, s)]
    /\ UNCHANGED <<channels, assets, cache, reader>>

\* The statement fails: the epgId was taken, or the asset deleted, since the
\* handler looked.  The answer is an error and nothing has changed.
WriteFails(h) ==
    /\ \/ /\ Doing(h, "insertChannel")
          /\ ~UniqueIndex(ChannelAfter(NewChannel, request[h].body).epgId, request[h].id)
       \/ /\ Doing(h, "updateChannel")
          /\ ~UniqueIndex(ChannelAfter(channels[request[h].id], request[h].body).epgId,
                          request[h].id)
       \/ (Doing(h, "updateAsset") \/ Doing(h, "deleteAsset")) /\ assets[request[h].id] = Null
       \/ Doing(h, "updateSchedule") /\ assets[request[h].asset] = Null
    /\ Goes(h, Null)
    /\ UNCHANGED <<tables, cache, reader>>

Purge(h) ==
    /\ Doing(h, "purge")
    /\ \E k \in request[h].keys :
         /\ cache' = [cache EXCEPT ![k] = Null]
         /\ Goes(h, Purging(request[h].keys \ {k}))
    /\ UNCHANGED <<tables, reader>>

-----------------------------------------------------------------------------
(* The public API.                                                         *)

Miss(r) ==
    /\ reader[r] = Null
    /\ \E k \in Keys :
         /\ cache[k] = Null
         /\ reader' = [reader EXCEPT ![r] = [key |-> k, read |-> FALSE, rows |-> {}]]
    /\ UNCHANGED <<tables, request, cache>>

ReadTables(r) ==
    /\ reader[r] # Null
    /\ ~reader[r].read
    /\ reader' = [reader EXCEPT ![r].read = TRUE, ![r].rows = Shown(reader[r].key)]
    /\ UNCHANGED <<tables, request, cache>>

\* setCachedResponse
Fill(r) ==
    /\ reader[r] # Null
    /\ reader[r].read
    /\ LET k    == reader[r].key
           late == reader[r].rows # Shown(k)
       IN cache' = [cache EXCEPT ![k] =
             [rows |-> IF late THEN {} ELSE reader[r].rows, late |-> late]]
    /\ reader' = [reader EXCEPT ![r] = Null]
    /\ UNCHANGED <<tables, request>>

\* Its TTL is over.
Expire(k) ==
    /\ cache[k] # Null
    /\ cache' = [cache EXCEPT ![k] = Null]
    /\ UNCHANGED <<tables, request, reader>>

-----------------------------------------------------------------------------

ChannelsService(h) ==
    CreateChannel(h) \/ UpdateChannel(h) \/ RemoveChannel(h) \/ InsertChannel(h) \/ WriteChannel(h)
AssetsService(h) ==
    \/ CreateAsset(h) \/ UpdateAsset(h) \/ RemoveAsset(h)
    \/ WriteAsset(h) \/ FindAffected(h) \/ DeleteAsset(h)
SchedulesService(h) == TakeAsset(h) \/ WriteSchedule(h)
Public(r) == Miss(r) \/ ReadTables(r) \/ Fill(r)

Next ==
    \/ \E h \in Handlers :
         \/ ChannelsService(h) \/ AssetsService(h) \/ SchedulesService(h)
         \/ WriteFails(h) \/ Purge(h)
    \/ \E r \in Readers : Public(r)
    \/ \E k \in Keys : Expire(k)

Spec == Init /\ [][Next]_vars

-----------------------------------------------------------------------------
(* Properties.                                                             *)

\* The importer finds a channel by its epgId and the guide is addressed by it:
\* no two channels ever have the same, whoever creates, renames and removes
\* channels at the same time.  The look before the write does not see to that.
EpgIdsUnique ==
    \A c, d \in ChannelIds :
        /\ c # d
        /\ channels[c] # Null /\ channels[c].epgId # Null
        /\ channels[d] # Null
        => channels[c].epgId # channels[d].epgId

Outdated(k) == cache[k] # Null /\ ~cache[k].late /\ cache[k].rows # Shown(k)

\* The keys a handler deletes from here on.
WillPurge(h) ==
    IF Doing(h, "purge") THEN request[h].keys
    ELSE IF Doing(h, "findAffected") THEN Affected(request[h].id)
    ELSE {}

\* The public list of channels follows every change of a channel, removals and
\* overlapping changes included: while a list that was right when it was stored
\* is wrong, the handler behind the change is about to delete it.
ListIsCurrent == Outdated(ChannelList) => \E h \in Handlers : ChannelList \in WillPurge(h)

\* So does the guide of a channel, with the channel's details and the assets of
\* its schedules, though the channels that show an asset are looked up after
\* the asset was written, while schedules take and leave it.  The one change no
\* handler announces is the asset a schedule lost to a deletion.
GuideIsCurrent ==
    \A c \in ChannelIds :
        Outdated(c) =>
            \/ \E h \in Handlers : c \in WillPurge(h)
            \/ \E s \in lost : ScheduleChannel[s] = c

\* 'Asset is used by schedules and cannot be deleted': a deletion takes the
\* asset from no schedule that had it when the deletion counted, only from
\* those written between the count and the DELETE.
DeletionSparesUsers ==
    [][\A s \in ScheduleIds :
         uses[s] # Null /\ uses'[s] = Null =>
            \E h \in Handlers :
                Doing(h, "deleteAsset") /\ request[h].id = uses[s] /\ s \in request[h].since]_vars

\* 'At least one of dashUrl or hlsUrl is required': no asset is without both.
AssetsPlayable == \A a \in AssetIds : assets[a] # Null => assets[a].urls # {}
=============================================================================
