------------------------------ MODULE LibreNMS ------------------------------
(***************************************************************************)
(* LibreNMS: its devices, the pins of its locations, and the codes that    *)
(* name locations.                                                         *)
(***************************************************************************)
EXTENDS FiniteSets, Integers, Sequences

-----------------------------------------------------------------------------
(***************************************************************************)
(* The LibreNMS synchronisation of internal/librenms: factum2-librenms.go, *)
(* pending.go, the client calls of librenms.go and the pending-delete rows *)
(* served by web/handle_librenms.go.                                       *)
(*                                                                         *)
(* A run reads LibreNMS and Factum, quarantines the LibreNMS devices no    *)
(* Factum device wants, deletes those whose grace period is over, creates  *)
(* what is missing and brings the linked ones up to date.  Every API call  *)
(* is a step and may fail; Factum, the settings and the pending rows are   *)
(* edited between the steps.  A device is reduced to its address, its      *)
(* flags and the LibreNMS id stored in NetBox; every LibreNMS hostname is  *)
(* an address, because requireIPHostnames aborts the run otherwise.  No    *)
(* two Factum devices have the same address.                               *)
(***************************************************************************)

CONSTANTS FDev,         \* Factum devices
          Ip,           \* addresses
          NoIp,         \* a device without a primary address
          NmsStarts,    \* states to start from
          Days,         \* LibrenmsDelayedDeleteDays
          MaxNms,       \* LibreNMS device ids
          MaxDay, MaxNmsRuns, MaxNmsEdits, MaxNmsFaults

VARIABLES fdev,     \* Factum device |-> [on, monitored, ip, id]
          nms,      \* LibreNMS id |-> [host, disabled, ignore]
          pend,     \* LibreNMS id |-> [at, force]
          keep,     \* hostnames listed as persistent devices
          delay,    \* delayed deletion is enabled
          today,
          nmsAt,    \* where the run is
          seen,     \* LibreNMS as the run read it
          want,     \* Factum as the run read it
          queue,    \* what the current part of the run still has to visit
          rows,     \* pending rows as the run read them
          still,    \* LibreNMS ids that stay quarantined
          stuck,    \* ids left disabled without a pending row
          used, runsN, editsN, faultsN

nmsvars == <<fdev, nms, pend, keep, delay, today, nmsAt, seen, want, queue, rows,
             still, stuck, used, runsN, editsN, faultsN>>

world == <<fdev, keep, delay, today, runsN, editsN>>

Without(f, k) == [x \in DOMAIN f \ {k} |-> f[x]]
With(f, k, v) == [x \in DOMAIN f \cup {k} |-> IF x = k THEN v ELSE f[x]]

\* getFactumDeviceForLibrenmsDevice: by the id in NetBox, else by the address.
MatchOf(l, id) ==
  LET linked == {d \in FDev : want[d].id = id}
      same == {d \in FDev : want[d].ip # NoIp /\ want[d].ip = l[id].host} IN
  IF linked # {} THEN linked ELSE same

Wanted(d) == want[d].on /\ want[d].monitored

\* Unwanted: no Factum device, or one that is disabled or not monitored.
Candidate(id) == ~\E d \in MatchOf(seen, id) : Wanted(d)

Persistent(id) == seen[id].host \in keep

(* A failed API call. *)
Broken == faultsN < MaxNmsFaults /\ faultsN' = faultsN + 1

EndRun(how) ==
  /\ nmsAt' = how /\ queue' = {} /\ still' = {}
  /\ seen' = <<>> /\ rows' = <<>>
  /\ want' = IF how = "done" THEN want ELSE fdev

Abort ==
  /\ Broken
  /\ EndRun("failed")
  /\ UNCHANGED <<world, nms, pend, stuck, used>>
-----------------------------------------------------------------------------
\* Sync reads LibreNMS first,
ReadNms ==
  /\ nmsAt \in {"idle", "done", "failed"} /\ runsN < MaxNmsRuns
  /\ runsN' = runsN + 1
  /\ seen' = nms
  /\ nmsAt' = "factum"
  /\ UNCHANGED <<fdev, nms, pend, keep, delay, today, want, queue, rows, still, stuck,
                 used, editsN, faultsN>>

\* then Factum,
ReadFactum ==
  /\ nmsAt = "factum"
  /\ \/ /\ want' = fdev
        /\ nmsAt' = "pending"
        /\ UNCHANGED <<world, nms, pend, seen, queue, rows, still, stuck, used, faultsN>>
     \/ Abort

\* then the pending rows.  What is unwanted and not persistent is a candidate.
ReadPending ==
  /\ nmsAt = "pending"
  /\ \/ /\ queue' = {id \in DOMAIN seen : Candidate(id) /\ ~Persistent(id)}
        /\ rows' = pend
        /\ nmsAt' = "policy"
        /\ UNCHANGED <<world, nms, pend, seen, want, still, stuck, used, faultsN>>
     \/ Abort
-----------------------------------------------------------------------------
(* applyDeletePolicy, first loop: the candidates. *)
\* Mutant of Due: the schedule is not looked at.
DueAny(row) == row.force \/ delay

Due(row) == row.force \/ (delay /\ today >= row.at)

Go(id, s) ==
  /\ queue' = queue \ {id} /\ still' = s
  /\ UNCHANGED <<world, nmsAt, seen, want, used, faultsN>>

\* quarantineDevice: LibreNMS first, then the row.  When the row cannot be
\* stored the device is left disabled.
Quarantine(id) ==
  /\ id \notin DOMAIN rows /\ delay
  /\ id \in DOMAIN nms
  /\ nms' = [nms EXCEPT ![id].disabled = TRUE, ![id].ignore = TRUE]
  /\ \/ /\ pend' = IF id \in DOMAIN pend THEN pend
                   ELSE With(pend, id, [at |-> today + Days, force |-> FALSE])
        /\ Go(id, still \cup {id})
        /\ UNCHANGED <<rows, stuck>>
     \/ /\ Broken /\ EndRun("failed")
        /\ stuck' = stuck \cup {id}
        /\ UNCHANGED <<world, pend, used>>

\* Delayed deletion is off and the device has no row: nothing is done.
WouldDelete(id) ==
  /\ id \notin DOMAIN rows /\ ~delay
  /\ Go(id, still)
  /\ UNCHANGED <<nms, pend, rows, stuck>>

\* deleteQuarantinedDevice; a device that is gone already counts as deleted.
DeleteDue(id) ==
  /\ id \in DOMAIN rows /\ Due(rows[id])
  /\ nms' = Without(nms, id)
  /\ \/ /\ pend' = Without(pend, id)
        /\ Go(id, still)
        /\ UNCHANGED <<rows, stuck>>
     \/ /\ Broken /\ EndRun("failed")
        /\ UNCHANGED <<world, pend, stuck, used>>

\* ensureQuarantine.
StillPending(id) ==
  /\ id \in DOMAIN rows /\ ~Due(rows[id])
  /\ id \in DOMAIN nms
  /\ nms' = IF delay THEN [nms EXCEPT ![id].disabled = TRUE, ![id].ignore = TRUE] ELSE nms
  /\ Go(id, still \cup {id})
  /\ UNCHANGED <<pend, rows, stuck>>

\* Candidates that were visited leave the second loop's rows alone.
Policy ==
  /\ nmsAt = "policy" /\ queue # {}
  /\ \E id \in queue :
       \/ Quarantine(id) \/ WouldDelete(id) \/ DeleteDue(id) \/ StillPending(id)
       \/ Abort

CandidatesDone ==
  /\ nmsAt = "policy" /\ queue = {}
  /\ queue' = {id \in DOMAIN rows :
                 \/ id \notin DOMAIN seen \/ Persistent(id)
                 \/ ~Candidate(id)}
  /\ nmsAt' = "rows"
  /\ UNCHANGED <<world, nms, pend, seen, want, rows, still, stuck, used, faultsN>>

(* Second loop: rows of devices that are no longer candidates. *)
DropRow(id) ==
  /\ id \notin DOMAIN seen \/ Persistent(id)
  /\ pend' = Without(pend, id)
  /\ stuck' = IF id \in DOMAIN nms /\ nms[id].disabled THEN stuck \cup {id} ELSE stuck
  /\ Go(id, still)
  /\ UNCHANGED <<nms, rows>>

\* restoreDevice.
Restore(id) ==
  /\ id \in DOMAIN seen /\ ~Persistent(id)
  /\ id \in DOMAIN nms
  /\ nms' = [nms EXCEPT ![id].disabled = FALSE]
  /\ \/ /\ pend' = Without(pend, id)
        /\ Go(id, still)
        /\ UNCHANGED <<rows, stuck>>
     \/ /\ Broken /\ EndRun("failed")
        /\ UNCHANGED <<world, pend, stuck, used>>

RowsWritten ==
  /\ nmsAt = "rows"
  /\ \/ /\ queue = {}
        /\ queue' = {d \in FDev : /\ Wanted(d) /\ want[d].ip # NoIp
                                  /\ ~\E id \in DOMAIN seen : d \in MatchOf(seen, id)}
        /\ nmsAt' = "create"
        /\ UNCHANGED <<world, nms, pend, seen, want, rows, still, stuck, used, faultsN>>
     \/ \E id \in queue : DropRow(id) \/ Restore(id) \/ Abort
-----------------------------------------------------------------------------
(* createDevice and SetDestinationID; either may fail and the run goes on. *)
HostFree(ip) == ~\E id \in DOMAIN nms : nms[id].host = ip

Create ==
  /\ nmsAt = "create"
  /\ \E d \in queue :
       /\ queue' = queue \ {d}
       /\ UNCHANGED <<keep, delay, today, runsN, editsN, pend, nmsAt, seen, rows, still, stuck>>
       /\ \/ /\ HostFree(want[d].ip) /\ used < MaxNms
             /\ used' = used + 1
             /\ nms' = With(nms, used + 1,
                            [host |-> want[d].ip, disabled |-> FALSE, ignore |-> FALSE])
             /\ \/ /\ fdev' = [fdev EXCEPT ![d].id = used + 1]
                   /\ want' = [want EXCEPT ![d].id = used + 1]
                   /\ UNCHANGED faultsN
                \/ Broken /\ UNCHANGED <<fdev, want>>
          \/ /\ ~HostFree(want[d].ip)
             /\ UNCHANGED <<fdev, nms, want, used, faultsN>>
          \/ Broken /\ UNCHANGED <<fdev, nms, want, used>>

\* The devices are read again and updated one by one.
ReadAgain ==
  /\ nmsAt = "create" /\ queue = {}
  /\ \/ /\ seen' = nms
        /\ queue' = DOMAIN nms \ still
        /\ nmsAt' = "update"
        /\ UNCHANGED <<world, nms, pend, want, rows, still, stuck, used, faultsN>>
     \/ Abort

(* One device of the update loop: link, rename, flags. *)
Linked(d, id) == want[d].id = id

\* Only the linked device of a Factum device is changed.
Update(id, d) ==
  LET row == [host |-> IF want[d].ip # NoIp THEN want[d].ip ELSE seen[id].host,
              disabled |-> nms[id].disabled,
              ignore |-> ~want[d].on] IN
  \/ /\ row.host = seen[id].host \/ HostFree(row.host)
     /\ nms' = [nms EXCEPT ![id] = row]
     /\ UNCHANGED <<pend, rows, stuck>>
     /\ Go(id, still)
  \/ /\ row.host # seen[id].host /\ ~HostFree(row.host)
     /\ EndRun("failed")
     /\ UNCHANGED <<world, nms, pend, stuck, used, faultsN>>
  \/ Abort

\* A device without an id is given this one; the write may fail.
Stamp(id, d) ==
  /\ want[d].id = 0
  /\ \/ /\ fdev' = [fdev EXCEPT ![d].id = id]
        /\ want' = [want EXCEPT ![d].id = id]
        /\ UNCHANGED <<faultsN, queue>>
     \/ Broken /\ queue' = queue \ {id} /\ UNCHANGED <<fdev, want>>
  /\ UNCHANGED <<nms, pend, keep, delay, today, nmsAt, seen, rows, still, stuck, used,
                 runsN, editsN>>

Updates ==
  /\ nmsAt = "update"
  /\ \/ /\ queue = {}
        /\ EndRun("done")
        /\ UNCHANGED <<world, nms, pend, stuck, used, faultsN>>
     \/ \E id \in queue :
          \/ /\ id \notin DOMAIN nms \/ MatchOf(seen, id) = {}
             /\ Go(id, still) /\ UNCHANGED <<nms, pend, rows, stuck>>
          \/ /\ id \in DOMAIN nms
             /\ \E d \in MatchOf(seen, id) :
                  \/ Linked(d, id) /\ Update(id, d)
                  \/ Stamp(id, d)
                  \/ /\ ~Linked(d, id) /\ want[d].id # 0
                     /\ Go(id, still) /\ UNCHANGED <<nms, pend, rows, stuck>>
-----------------------------------------------------------------------------
(* The world around the run. *)
NmsEdit ==
  /\ editsN < MaxNmsEdits
  /\ editsN' = editsN + 1
  /\ UNCHANGED <<nms, today, nmsAt, seen, want, queue, rows, still, stuck, used, runsN, faultsN>>

FactumEdit ==
  /\ NmsEdit
  /\ \E d \in FDev :
       \/ fdev' = [fdev EXCEPT ![d].on = ~@]
       \/ fdev' = [fdev EXCEPT ![d].monitored = ~@]
       \/ \E ip \in Ip : /\ ip \notin {fdev[e].ip : e \in FDev}
                         /\ fdev' = [fdev EXCEPT ![d].ip = ip]
  /\ UNCHANGED <<pend, keep, delay>>

\* The settings are fetched once, before the run.
Between == nmsAt \in {"idle", "done", "failed"}

SettingsEdit ==
  /\ NmsEdit /\ Between
  /\ \/ delay' = ~delay /\ UNCHANGED keep
     \/ \E ip \in Ip : keep' = keep \cup {ip} /\ UNCHANGED delay
  /\ UNCHANGED <<fdev, pend>>

\* ApiLibrenmsPendingDeleteNextSync.
ForceDelete ==
  /\ NmsEdit
  /\ \E id \in DOMAIN pend : pend' = [pend EXCEPT ![id].force = TRUE]
  /\ UNCHANGED <<fdev, keep, delay>>

Tomorrow ==
  /\ today < MaxDay /\ Between
  /\ today' = today + 1
  /\ UNCHANGED <<fdev, nms, pend, keep, delay, nmsAt, seen, want, queue, rows, still,
                 stuck, used, runsN, editsN, faultsN>>
-----------------------------------------------------------------------------
NmsInit ==
  /\ \E s \in NmsStarts : fdev = s.fdev /\ nms = s.nms /\ used = s.used
  /\ pend = <<>> /\ keep = {} /\ delay = TRUE /\ today = 0
  /\ nmsAt = "idle" /\ seen = <<>> /\ want = fdev /\ queue = {} /\ rows = <<>>
  /\ still = {} /\ stuck = {} /\ runsN = 0 /\ editsN = 0 /\ faultsN = 0

NmsNext ==
  \/ ReadNms \/ ReadFactum \/ ReadPending \/ Policy \/ CandidatesDone \/ RowsWritten
  \/ Create \/ ReadAgain \/ Updates
  \/ FactumEdit \/ SettingsEdit \/ ForceDelete \/ Tomorrow

NmsSpec == NmsInit /\ [][NmsNext]_nmsvars
-----------------------------------------------------------------------------
\* RowsWritten and devices have their shape.
NmsTypeOK ==
  /\ \A id \in DOMAIN nms : id \in 1..MaxNms /\ nms[id].host \in Ip
  /\ \A id \in DOMAIN pend : pend[id].at \in 0..(MaxDay + Days)
  /\ DOMAIN fdev = FDev

\* A device leaves LibreNMS only when the run that read it found it unwanted,
\* it is not persistent, and its grace period is over or an operator asked for
\* it (applyDeletePolicy, deleteQuarantinedDevice).
GraceKept ==
  \A id \in DOMAIN nms :
    id \notin DOMAIN nms' =>
      /\ id \in DOMAIN rows
      /\ rows[id].force \/ today >= rows[id].at
      /\ ~Persistent(id)
      /\ Candidate(id)

\* A run that succeeds leaves every wanted device it read polled: one LibreNMS
\* device is linked to it, has its address, and is neither disabled nor
\* ignored, whatever earlier runs left half done (Sync).  Not claimed of a
\* device left disabled without a pending row, of one whose stored id names no
\* LibreNMS device, and of one that could not be created or linked.
WantedIsPolled ==
  nmsAt = "done" =>
    \A d \in FDev :
      (Wanted(d) /\ want[d].ip # NoIp /\ want[d].id \in DOMAIN nms \ stuck) =>
        /\ nms[want[d].id].host = want[d].ip
        /\ ~nms[want[d].id].ignore
        /\ ~nms[want[d].id].disabled

-----------------------------------------------------------------------------
(***************************************************************************)
(* Coordinates of LibreNMS locations: planLocationCoordinates and          *)
(* syncDeviceCoordinates of internal/librenms/factum2-librenms.go and the  *)
(* SQL of librenms.go.                                                     *)
(*                                                                         *)
(* LibreNMS keeps one pin per location and devices share locations.  A run *)
(* visits the linked devices in the order LibreNMS lists them, gives each  *)
(* its location and writes the pins.  Generated location names stand for a *)
(* cell of coordinates (the codes below); other names are operators'.      *)
(***************************************************************************)

CONSTANTS PinDev,       \* LibreNMS device ids
          Coord,        \* coordinates
          CellOf,       \* the generated name of each coordinate
          Named,        \* operators' location names
          NoPlace,
          PinStarts,    \* states to start from
          MaxPinRuns, MaxPinEdits

VARIABLES where,    \* device |-> its location in LibreNMS, or NoPlace
          pin,      \* location |-> coordinate, or NoPlace while unpinned
          fplace,   \* device |-> [loc, at]: Factum's location and coordinates
          plan,     \* location |-> the device whose coordinates it gets
          snapped,  \* locations of the devices as the run read them
          visit,    \* devices still to visit
          pinAt, wrote, pinRuns, pinEdits

pinvars == <<where, pin, fplace, plan, snapped, visit, pinAt, wrote, pinRuns, pinEdits>>

Generated(name) == name \in {CellOf[c] : c \in Coord}

\* librenmsLocationName.
librenmsLocationName(d, cur) ==
  LET f == fplace[d] IN
  IF f.loc # NoPlace THEN f.loc
  ELSE IF cur[d] # NoPlace /\ ~Generated(cur[d]) THEN cur[d]
  ELSE IF f.at # NoPlace THEN CellOf[f.at]
  ELSE cur[d]

\* Mutant of planLocationCoordinates: the device listed last decides.
planHighest(cur) ==
  LET placed == {d \in PinDev : fplace[d].at # NoPlace /\ librenmsLocationName(d, cur) # NoPlace}
      name(d) == librenmsLocationName(d, cur) IN
  [n \in {name(d) : d \in placed} |->
    CHOOSE d \in placed : name(d) = n /\ \A e \in placed : name(e) = n => d >= e]

\* planLocationCoordinates: the lowest device id decides for each location.
planLocationCoordinates(cur) ==
  LET placed == {d \in PinDev : fplace[d].at # NoPlace /\ librenmsLocationName(d, cur) # NoPlace}
      name(d) == librenmsLocationName(d, cur) IN
  [n \in {name(d) : d \in placed} |->
    CHOOSE d \in placed : name(d) = n /\ \A e \in placed : name(e) = n => d <= e]

StartPins ==
  /\ pinAt # "run" /\ pinRuns < MaxPinRuns
  /\ pinRuns' = pinRuns + 1
  /\ pinAt' = "run" /\ wrote' = {}
  /\ snapped' = where
  /\ plan' = planLocationCoordinates(where)
  /\ visit' = PinDev
  /\ UNCHANGED <<where, pin, fplace, pinEdits>>

\* LocationSetCoordinates, or LocationInsertCoordinates when the row is missing.
SetPin(n, c) ==
  /\ pin' = [m \in DOMAIN pin \cup {n} |-> IF m = n THEN c ELSE pin[m]]
  /\ wrote' = IF n \in DOMAIN pin /\ pin[n] = c THEN wrote ELSE wrote \cup {n}

\* One device of Sync's update loop: its location, then syncDeviceCoordinates.
\* Assigning a location that LibreNMS does not have creates it.
Visit ==
  /\ pinAt = "run"
  /\ \E d \in visit :
       LET name == librenmsLocationName(d, snapped)
           c == fplace[d].at IN
       /\ visit' = visit \ {d}
       /\ where' = IF name # NoPlace THEN [where EXCEPT ![d] = name] ELSE where
       /\ \/ /\ c = NoPlace \/ name = NoPlace
             /\ UNCHANGED <<pin, wrote>>
          \/ /\ c # NoPlace /\ name # NoPlace /\ Generated(name)
             /\ SetPin(name, c)
          \/ /\ c # NoPlace /\ name # NoPlace /\ ~Generated(name) /\ plan[name] = d
             /\ SetPin(name, c)
          \/ /\ c # NoPlace /\ name # NoPlace /\ ~Generated(name) /\ plan[name] # d
             /\ pin' = IF name \in DOMAIN pin THEN pin
                       ELSE [m \in DOMAIN pin \cup {name} |-> IF m = name THEN NoPlace ELSE pin[m]]
             /\ UNCHANGED wrote
  /\ UNCHANGED <<fplace, plan, snapped, pinAt, pinRuns, pinEdits>>

PinsDone ==
  /\ pinAt = "run" /\ visit = {}
  /\ pinAt' = "done"
  /\ UNCHANGED <<where, pin, fplace, plan, snapped, visit, wrote, pinRuns, pinEdits>>

\* A device is moved or renamed in Factum between runs.
Replaced ==
  /\ pinAt # "run" /\ pinEdits < MaxPinEdits
  /\ pinEdits' = pinEdits + 1 /\ pinAt' = "edited"
  /\ \E d \in PinDev :
       \/ \E n \in Named \cup {NoPlace} : fplace' = [fplace EXCEPT ![d].loc = n]
       \/ \E c \in Coord : fplace' = [fplace EXCEPT ![d].at = c]
  /\ UNCHANGED <<where, pin, plan, snapped, visit, wrote, pinRuns>>

PinInit ==
  /\ \E s \in PinStarts : where = s.where /\ pin = s.pin /\ fplace = s.fplace
  /\ plan = <<>> /\ snapped = where /\ visit = {} /\ pinAt = "edited" /\ wrote = {}
  /\ pinRuns = 0 /\ pinEdits = 0

PinNext == StartPins \/ Visit \/ PinsDone \/ Replaced

PinSpec == PinInit /\ [][PinNext]_pinvars
-----------------------------------------------------------------------------
\* After a run, a location with an operator's name is pinned where the device
\* with the lowest id at that location is, and every device with coordinates is
\* at a pinned location, in whatever order LibreNMS listed the devices
\* (planLocationCoordinates, syncDeviceCoordinates).
PinsFollowLowest ==
  pinAt = "done" =>
    \A d \in PinDev :
      (fplace[d].at # NoPlace /\ where[d] # NoPlace) =>
        /\ pin[where[d]] # NoPlace
        /\ (~Generated(where[d])
            /\ \A e \in PinDev : (where[e] = where[d] /\ fplace[e].at # NoPlace) => d <= e)
             => pin[where[d]] = fplace[d].at

-----------------------------------------------------------------------------
(***************************************************************************)
(* The names LibreNMS locations get from coordinates: the Open Location    *)
(* Code of internal/librenms/olc.go and coordinateLocationName of          *)
(* factum2-librenms.go.                                                    *)
(*                                                                         *)
(* A coordinate is an integer number of the smallest unit the code uses.   *)
(* The program has five pairs of digits and five grid digits; here their   *)
(* numbers are constants so that the values stay small.  A code is a       *)
(* record of digits: latitude and longitude pairs and the grid digits.     *)
(* Rounding of floating-point values is left out.                          *)
(***************************************************************************)

CONSTANTS Pairs,      \* pairs of digits (olcPairLen / 2)
          SepPair,    \* pairs before the "+" (olcSepPos / 2)
          LatPts, LngPts,   \* coordinates looked at, in units
          Sites       \* named places: [name, lat, lng]

VARIABLES p, q,       \* two points
          near        \* the sites that have been loaded

olcvars == <<p, q, near>>

Base == 20
GridRows == 5
GridCols == 4
LatMax == 90
LngMax == 180
\* Units in a degree: the second pair has one degree, each further pair a 20th.
LatUnit == Base^(Pairs - 2) * GridRows
LngUnit == Base^(Pairs - 2) * GridCols
LatSpan == 2 * LatMax * LatUnit
LngSpan == 2 * LngMax * LngUnit

\* olcLatitude: shifted to start at zero and clipped.
olcLatitude(lat) ==
  LET v == lat + LatMax * LatUnit IN
  IF v < 0 THEN 0 ELSE IF v >= LatSpan THEN LatSpan - 1 ELSE v

\* Go's remainder has the sign of the dividend.
GoRem(a, b) == IF a >= 0 THEN a % b ELSE -((-a) % b)

\* olcLongitude: shifted to start at zero and wrapped.
olcLongitude(lng) ==
  LET v == lng + LngMax * LngUnit IN
  IF v <= 0 THEN GoRem(v, LngSpan) + LngSpan
  ELSE IF v >= LngSpan THEN v % LngSpan ELSE v

\* olcPairStep, taken Pairs times from the last pair to the first.
PairDigits(v) == [j \in 1..Pairs |-> (v \div Base^(Pairs - j)) % Base]

\* integerEncodeOLC with one grid digit.
encode(pt) ==
  LET lat == olcLatitude(pt.lat)
      lng == olcLongitude(pt.lng) IN
  [lat |-> PairDigits(lat \div GridRows), lng |-> PairDigits(lng \div GridCols),
   grid |-> (lat % GridRows) * GridCols + (lng % GridCols)]

isOpenLocationCode(code) ==
  /\ code.lat[1] * Base < 2 * LatMax
  /\ code.lng[1] * Base < 2 * LngMax

Value(digits) ==
  LET v[j \in 0..Pairs] == IF j = 0 THEN 0 ELSE v[j - 1] * Base + digits[j] IN v[Pairs]

\* decodeOpenLocationCode: the south-west corner of the cell; a cell is one
\* unit high and wide.
decode(code) ==
  [lat |-> Value(code.lat) * GridRows + (code.grid \div GridCols) - LatMax * LatUnit,
   lng |-> Value(code.lng) * GridCols + (code.grid % GridCols) - LngMax * LngUnit]

Abs(x) == IF x < 0 THEN -x ELSE x
Larger(a, b) == IF a > b THEN a ELSE b

\* Twice the distance between the centre of a cell and a place, on a scale on
\* which one degree is the same number of units both ways.
Distance(cell, site) ==
  Larger(Abs(2 * cell.lat + 1 - 2 * site.lat) * GridCols,
         Abs(2 * cell.lng + 1 - 2 * site.lng) * GridRows)

\* The size of the area of pair i, on the scale of Distance; pair 2 has one degree.
PairSize(i) == 2 * GridRows * GridCols * Base^(Pairs - i)

\* Mutant of Close: the place may be anywhere in the neighbouring area.
CloseBy(dist, i) == dist < PairSize(i)

\* The factor 0.3 of shortenOpenLocationCode.
Close(dist, i) == 10 * dist < 3 * PairSize(i)

\* shortenOpenLocationCode: how many leading pairs a place makes redundant;
\* from the most to the fewest, 0 when the place is too far.
Dropped(cell, site) ==
  LET ok == {i \in 2..SepPair : Close(Distance(cell, site), i)} IN
  IF ok = {} THEN 0 ELSE CHOOSE i \in ok : \A j \in ok : j <= i

\* coordinateLocationName: the nearest place that shortens the code names it,
\* the first by name among equals.
coordinateLocationName(pt) ==
  LET code == encode(pt)
      cell == decode(code)
      usable == {s \in near : Dropped(cell, s) > 0}
      Before(s, t) == \/ Distance(cell, s) < Distance(cell, t)
                      \/ Distance(cell, s) = Distance(cell, t) /\ s.rank <= t.rank IN
  IF ~isOpenLocationCode(code) \/ usable = {} THEN [code |-> code, place |-> 0]
  ELSE LET best == CHOOSE s \in usable : \A t \in usable : Before(s, t)
           n == Dropped(cell, best) IN
       [code |-> [lat |-> SubSeq(code.lat, n + 1, Pairs),
                  lng |-> SubSeq(code.lng, n + 1, Pairs), grid |-> code.grid],
        place |-> best.rank]
-----------------------------------------------------------------------------
Point == [lat : LatPts, lng : LngPts]

OlcInit == p \in Point /\ q = p /\ near \in SUBSET Sites

\* Another point is named.
OlcNext == p' \in Point /\ UNCHANGED <<q, near>>

OlcSpec == OlcInit /\ [][OlcNext]_olcvars
-----------------------------------------------------------------------------
\* Two devices that get the same generated location name are in the same cell
\* of the code, so no two sites share a LibreNMS pin by accident
\* (coordinateLocationName, shortenOpenLocationCode).
SameNameSameCell ==
  coordinateLocationName(p) = coordinateLocationName(q) =>
    decode(encode(p)) = decode(encode(q))
=============================================================================
