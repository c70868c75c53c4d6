------------------------------ MODULE TrackMap ------------------------------
(***************************************************************************)
(* The map of the track: src/web/src/pages/viewer/map.tsx and the geometry *)
(* of src/web/src/utils/app-helpers.ts.                                    *)
(*                                                                         *)
(* A coordinate is <<latitude, longitude>>, in millionths of a degree; one *)
(* that is missing or not made of numbers is <<>>.  A track is a record of *)
(* paths ([main, points], main if its type names the track), lines and     *)
(* sectors ([id, at]); a sector without a valid id has id 0.               *)
(***************************************************************************)
EXTENDS Integers, Sequences, FiniteSets, FiniteSetsExt, Functions

(* The members of a finite set, each after those that come before it.      *)
Listed(S, Before(_, _)) ==
  [n \in 1 .. Cardinality(S) |-> CHOOSE i \in S : Cardinality({j \in S : Before(j, i)}) = n - 1]

(* The elements of a sequence that are at some of its places. *)
Filtered(seq, places) == [n \in 1 .. Cardinality(places) |-> seq[Listed(places, <)[n]]]

Coord == {<<>>} \cup (Int \X Int)

TrackPayload == [paths   : Seq([main : BOOLEAN, points : Seq(Coord)]),
                 lines   : Seq([start : Coord, end : Coord]),
                 sectors : Seq([id : Nat, at : Coord])]

isCoord(value) == Len(value) >= 2

normalizeCoords(coords) == Filtered(coords, {i \in DOMAIN coords : isCoord(coords[i])})

-----------------------------------------------------------------------------
(* The view box *)

(* Everything of the track that is drawn, the cars excepted. *)
PointsOf(track) ==
  {p \in UNION ({Range(track.paths[i].points) : i \in DOMAIN track.paths}
                \cup {{line.start, line.end} : line \in Range(track.lines)}
                \cup {{sector.at} : sector \in Range(track.sectors)}) : isCoord(p)}

computeTrackBounds(points) ==
  [minLat |-> Min({p[1] : p \in points}), maxLat |-> Max({p[1] : p \in points}),
   minLon |-> Min({p[2] : p \in points}), maxLon |-> Max({p[2] : p \in points})]

Span(low, high) == IF high > low THEN high - low ELSE 1

Padding == 40

(* Whole units of a box of 1000 by 680. *)
projectTrackPoint(p, bounds) ==
  [x |-> Padding + ((p[2] - bounds.minLon) * 920) \div Span(bounds.minLon, bounds.maxLon),
   y |-> 640 - ((p[1] - bounds.minLat) * 600) \div Span(bounds.minLat, bounds.maxLat)]

buildTrackPolyline(coordinates, bounds) ==
  LET drawn == normalizeCoords(coordinates)
  IN  [i \in DOMAIN drawn |-> projectTrackPoint(drawn[i], bounds)]

-----------------------------------------------------------------------------
(* The sectors of the lap *)

(* The first of the longest paths, of those of the track if there are any. *)
pickMainTrackCoords(paths) ==
  LET trackOnly == {i \in DOMAIN paths : paths[i].main}
      source  == IF trackOnly # {} THEN trackOnly ELSE DOMAIN paths
      size(i) == Len(normalizeCoords(paths[i].points))
      best    == CHOOSE i \in source : \A j \in source : size(j) <= size(i) /\ (j < i => size(j) < size(i))
  IN  IF source = {} THEN <<>> ELSE normalizeCoords(paths[best].points)

Distance(p, q) == (p[1] - q[1]) * (p[1] - q[1]) + (p[2] - q[2]) * (p[2] - q[2])

(* The first of the nearest points, 0 if there is none. *)
nearestPointIndex(path, target) ==
  LET dist(i) == Distance(path[i], target)
  IN  IF Len(path) = 0 THEN 0
      ELSE CHOOSE i \in DOMAIN path :
             \A j \in DOMAIN path : dist(i) <= dist(j) /\ (j < i => dist(i) < dist(j))

(* Mutant of segmentBetween: the lap does not go on over the last point. *)
SegmentWithoutWrap(path, first, last) == SubSeq(path, first, last)

segmentBetween(path, first, last) ==
  IF first <= last THEN SubSeq(path, first, last)
  ELSE SubSeq(path, first, Len(path)) \o SubSeq(path, 1, last)

(* The places of the sectors that have an id and a point, and of those the *)
(* order of the lap; the sort is stable.                                   *)
ValidSectors(sectors) == {i \in DOMAIN sectors : sectors[i].id > 0 /\ isCoord(sectors[i].at)}

Indexed(path, sectors) ==
  LET at(i) == nearestPointIndex(path, sectors[i].at)
  IN  Listed(ValidSectors(sectors), LAMBDA i, j : at(i) < at(j) \/ (at(i) = at(j) /\ i < j))

(* The flag of a sector, 0 for one that has none. *)
FlagOf(id, flags) == IF id \in DOMAIN flags THEN flags[id] ELSE 0

buildSectorSegments(path, sectors, flags) ==
  LET order   == Indexed(path, sectors)
      at(n)   == nearestPointIndex(path, sectors[order[n]].at)
      pieces  == [n \in DOMAIN order |->
                    [id |-> sectors[order[n]].id, flag |-> FlagOf(sectors[order[n]].id, flags),
                     points |-> segmentBetween(path, at(n), at((n % Len(order)) + 1))]]
  IN  IF Len(path) < 2 \/ Len(order) < 2 THEN <<>>
      ELSE Filtered(pieces, {n \in DOMAIN order : Len(pieces[n].points) >= 2})

-----------------------------------------------------------------------------
(* The page *)

(* What ViewerMapPage draws of a track that has points: all but the cars,  *)
(* the other paths, the lap, its sectors, the lines, the sectors' marks.    *)
(* The paths of the track are left out: the longest is drawn as the lap.   *)
Drawing(track, flags) ==
  LET bounds   == computeTrackBounds(PointsOf(track))
      main     == pickMainTrackCoords(track.paths)
      segments == buildSectorSegments(main, track.sectors, flags)
      others   == {path \in Range(track.paths) : /\ normalizeCoords(path.points) # <<>>
                                                 /\ path.main => Len(main) <= 1}
      lines    == {line \in Range(track.lines) : isCoord(line.start) /\ isCoord(line.end)}
      sectors  == {sector \in Range(track.sectors) : isCoord(sector.at)}
  IN  [paths    |-> {buildTrackPolyline(path.points, bounds) : path \in others},
       lap      |-> IF Len(main) > 1 THEN buildTrackPolyline(main, bounds) ELSE <<>>,
       segments |-> [i \in DOMAIN segments |->
                       [segments[i] EXCEPT !.points = buildTrackPolyline(@, bounds)]],
       lines    |-> {<<projectTrackPoint(line.start, bounds), projectTrackPoint(line.end, bounds)>> :
                       line \in lines},
       marks    |-> {[id |-> sector.id, point |-> projectTrackPoint(sector.at, bounds),
                      flag |-> FlagOf(sector.id, flags)] : sector \in sectors}]

-----------------------------------------------------------------------------
(* References, from which the map is judged.                               *)

(* The edges a polyline draws, from each point to the next. *)
Edges(points) == {<<points[i], points[i + 1]>> : i \in 1 .. Len(points) - 1}

(* The edge of a closed polyline that leaves a point. *)
Edge(points, k) == <<points[k], points[(k % Len(points)) + 1]>>

(* The sector the lap is in behind a point of the path: the last one whose *)
(* point has been passed.                                                  *)
OwnerOf(k, path, sectors) ==
  LET places == ValidSectors(sectors)
      at(i)  == nearestPointIndex(path, sectors[i].at)
      passed == IF \E i \in places : at(i) <= k THEN {i \in places : at(i) <= k} ELSE places
      last   == CHOOSE i \in passed : \A j \in passed :
                  at(j) < at(i) \/ (at(j) = at(i) /\ j <= i)
  IN  sectors[last].id

Places(track) ==
  LET path == pickMainTrackCoords(track.paths)
  IN  {nearestPointIndex(path, track.sectors[i].at) : i \in ValidSectors(track.sectors)}

(* Each edge of the lap, the one that closes it included, is drawn once,   *)
(* in the flag of the sector it belongs to, as is the mark of that sector. *)
LapIsColored(track, flags) ==
  LET path     == pickMainTrackCoords(track.paths)
      drawn    == Drawing(track, flags)
      drawing(k) == {i \in DOMAIN drawn.segments :
                       Edge(drawn.lap, k) \in Edges(drawn.segments[i].points)}
  IN  \A k \in DOMAIN path :
        LET owner == OwnerOf(k, path, track.sectors)
        IN  /\ Cardinality(drawing(k)) = 1
            /\ \A i \in drawing(k) : drawn.segments[i].flag = FlagOf(owner, flags)
            /\ \A mark \in drawn.marks : mark.id = owner => mark.flag = FlagOf(owner, flags)

DrawnPoints(drawn) ==
  LET polylines == drawn.paths \cup drawn.lines \cup {drawn.lap}
                   \cup {segment.points : segment \in Range(drawn.segments)}
  IN  (UNION {Range(polyline) : polyline \in polylines}) \cup {mark.point : mark \in drawn.marks}

(* All that is drawn stays in the box, inside its padding. *)
StaysInTheBox(track, flags) ==
  \A p \in DrawnPoints(Drawing(track, flags)) :
    p.x \in Padding .. 1000 - Padding /\ p.y \in Padding .. 680 - Padding

=============================================================================
