------------------------------ MODULE AmFmTuner ------------------------------
(***************************************************************************)
(* QIviAmFmTuner features that share one backend of the tuner simulator.   *)
(* The backend keeps a frequency for each band; what one feature asks for  *)
(* is announced to all of them.                                            *)
(***************************************************************************)
EXTENDS Integers, Sequences

CONSTANTS
    Tuners,          \* features
    Band,
    FMBand,          \* the band at the start
    Limits,          \* of a band: minimum and maximum frequency, step size
    Stations,        \* m_stations of a band: their frequencies
    Frequencies,     \* BOUND: what a user asks for
    NoStation,       \* the default-constructed station
    NoLimits

ASSUME TunerAssumption ==
    /\ FMBand \in Band
    /\ Limits \in [Band -> [min : Nat, max : Nat, step : Nat \ {0}]]
    /\ \A b \in Band : Limits[b].min <= Limits[b].max
    /\ Stations \in [Band -> Seq(Nat)]
    /\ \A b \in Band : \A i \in DOMAIN Stations[b] :
            /\ Stations[b][i] \in Limits[b].min .. Limits[b].max
            /\ \A j \in DOMAIN Stations[b] : Stations[b][i] = Stations[b][j] => i = j
    /\ Frequencies \subseteq Int
    /\ NoStation \notin Band \X Nat /\ NoLimits \notin Band

VARIABLES
    band,            \* m_band of the backend
    frequency,       \* m_frequency of each band
    scanning,        \* the scan timer is running
    attached,        \* features that are connected
    shown            \* the properties of a feature

tunerVars == <<band, frequency, scanning, attached, shown>>

Station == (Band \X Nat) \cup {NoStation}
Shown == [band : Band, limits : Band \cup {NoLimits}, frequency : Nat \cup {-1},
          station : Station, scanRunning : BOOLEAN]

\* clearToDefaults()
Defaults == [band |-> FMBand, limits |-> NoLimits, frequency |-> -1,
             station |-> NoStation, scanRunning |-> FALSE]

\* The frequency of every band stays within its limits.
TunerTypeOK ==
    /\ band \in Band
    /\ frequency \in [Band -> Nat]
    /\ \A b \in Band : frequency[b] \in Limits[b].min .. Limits[b].max
    /\ scanning \in BOOLEAN /\ attached \subseteq Tuners
    /\ shown \in [Tuners -> Shown]

TunerInit ==
    /\ band = FMBand /\ frequency = [b \in Band |-> Limits[b].min]
    /\ scanning = FALSE /\ attached = {}
    /\ shown = [t \in Tuners |-> Defaults]

------------------------------------------------------------------------------
\* stationAt(): the station of a band with this frequency, if there is one.
StationAt(b, f) ==
    IF \E i \in DOMAIN Stations[b] : Stations[b][i] = f THEN <<b, f>> ELSE NoStation

\* The signals of the backend reach every attached feature.
Announce(told) ==
    shown' = [t \in Tuners |-> IF t \in attached THEN told[t] ELSE shown[t]]

\* What t shows when it is told everything but of a scan.
At(t, b, f, station) ==
    [band |-> b, limits |-> b, frequency |-> f, station |-> station,
     scanRunning |-> shown[t].scanRunning]

\* frequencyChanged(), stationChanged()
Tuned(b, f) ==
    [t \in Tuners |-> [shown[t] EXCEPT !.frequency = f, !.station = StationAt(b, f)]]

\* bandChanged(), the limits, frequencyChanged(), stationChanged()
SwitchedKeepsStation(b, f) == [t \in Tuners |-> At(t, b, f, shown[t].station)]

Switched(b, f) == [t \in Tuners |-> At(t, b, f, StationAt(b, f))]

InRangeAlways(b, f) == TRUE

InRange(b, f) == f \in Limits[b].min .. Limits[b].max

\* initialize() announces the first station, whatever the frequency is, and
\* says nothing of a scan; a band without stations it does not survive.
AttachTuner(t) ==
    /\ t \notin attached /\ Stations[band] # <<>>
    /\ attached' = attached \cup {t}
    /\ shown' = [u \in Tuners |->
                    IF u \in attached'
                    THEN At(u, band, frequency[band], <<band, Stations[band][1]>>)
                    ELSE shown[u]]
    /\ UNCHANGED <<band, frequency, scanning>>

DetachTuner(t) ==
    /\ t \in attached
    /\ attached' = attached \ {t}
    /\ shown' = [shown EXCEPT ![t] = Defaults]
    /\ UNCHANGED <<band, frequency, scanning>>

------------------------------------------------------------------------------
\* setFrequency() of the backend: out of range or the same, it is ignored.
TuneTo(f) ==
    IF f # frequency[band] /\ InRange(band, f)
    THEN /\ frequency' = [frequency EXCEPT ![band] = f]
         /\ Announce(Tuned(band, f))
    ELSE UNCHANGED <<frequency, shown>>

SetFrequency(f) ==
    /\ attached # {}
    /\ TuneTo(f)
    /\ UNCHANGED <<band, scanning, attached>>

SetBand(b) ==
    /\ attached # {} /\ b # band
    /\ band' = b
    /\ Announce(Switched(b, frequency[b]))
    /\ UNCHANGED <<frequency, scanning, attached>>

StepUp ==
    LET up == frequency[band] + Limits[band].step IN
    /\ attached # {}
    /\ TuneTo(IF up > Limits[band].max THEN Limits[band].min ELSE up)
    /\ UNCHANGED <<band, scanning, attached>>

\* stepDown() works out the end of the band to go on from and does not use it.
StepDown ==
    /\ attached # {}
    /\ TuneTo(frequency[band] - Limits[band].step)
    /\ UNCHANGED <<band, scanning, attached>>

\* tune(): setBand() if the feature shows another band, then setFrequency()
\* if it still shows another frequency.
Tune(t, b, f) ==
    LET there == IF b # shown[t].band THEN b ELSE band
        switches == there # band
        showing == IF switches THEN frequency[there] ELSE shown[t].frequency
        moves == f # showing /\ f # frequency[there] /\ InRange(there, f)
        at == IF moves THEN f ELSE frequency[there]
    IN
    /\ t \in attached
    /\ band' = there
    /\ frequency' = [frequency EXCEPT ![there] = at]
    /\ IF switches THEN Announce(Switched(there, at))
       ELSE IF moves THEN Announce(Tuned(there, at)) ELSE UNCHANGED shown
    /\ UNCHANGED <<scanning, attached>>

------------------------------------------------------------------------------
\* stationIndexFromFrequency(): 0 where the code has -1
IndexOf(b, f) ==
    IF \E i \in DOMAIN Stations[b] : Stations[b][i] = f
    THEN CHOOSE i \in DOMAIN Stations[b] : Stations[b][i] = f ELSE 0

\* The index seekUp() and seekDown() go on to, wrapping around at the ends.
Following(b, f) == IF IndexOf(b, f) < Len(Stations[b]) THEN IndexOf(b, f) + 1 ELSE 1

Preceding(b, f) == IF IndexOf(b, f) > 1 THEN IndexOf(b, f) - 1 ELSE Len(Stations[b])

\* setCurrentStation(); without stations there is nothing to seek
SeekTo(i) ==
    IF Stations[band] = <<>> THEN UNCHANGED <<frequency, shown>>
    ELSE /\ frequency' = [frequency EXCEPT ![band] = Stations[band][i]]
         /\ Announce(Tuned(band, Stations[band][i]))

SeekUp ==
    /\ attached # {}
    /\ SeekTo(Following(band, frequency[band]))
    /\ UNCHANGED <<band, scanning, attached>>

SeekDown ==
    /\ attached # {}
    /\ SeekTo(Preceding(band, frequency[band]))
    /\ UNCHANGED <<band, scanning, attached>>

------------------------------------------------------------------------------
\* What the features show, with scanStatusChanged().
ScanTold(told, on) == [t \in Tuners |-> [told[t] EXCEPT !.scanRunning = on]]

\* The feature refuses when it shows a scan, the backend when one is running.
StartScan(t) ==
    LET next == IF Stations[band] = <<>> THEN frequency[band]
                ELSE Stations[band][Following(band, frequency[band])]
    IN
    /\ t \in attached /\ ~shown[t].scanRunning /\ ~scanning
    /\ scanning' = TRUE
    /\ frequency' = [frequency EXCEPT ![band] = next]
    /\ Announce(ScanTold(IF Stations[band] = <<>> THEN shown ELSE Tuned(band, next), TRUE))
    /\ UNCHANGED <<band, attached>>

StopScan(t) ==
    /\ t \in attached /\ shown[t].scanRunning /\ scanning
    /\ scanning' = FALSE
    /\ Announce(ScanTold(shown, FALSE))
    /\ UNCHANGED <<band, frequency, attached>>

\* The timer goes on seeking whether or not a feature is connected.
ScanTimer ==
    /\ scanning
    /\ SeekTo(Following(band, frequency[band]))
    /\ UNCHANGED <<band, scanning, attached>>

------------------------------------------------------------------------------
TunerNext ==
    \/ \E t \in Tuners : AttachTuner(t) \/ DetachTuner(t) \/ StartScan(t) \/ StopScan(t)
    \/ \E f \in Frequencies : SetFrequency(f)
    \/ \E b \in Band : SetBand(b)
    \/ \E t \in Tuners, b \in Band, f \in Frequencies : Tune(t, b, f)
    \/ StepUp \/ StepDown \/ SeekUp \/ SeekDown \/ ScanTimer

TunerSpec == TunerInit /\ [][TunerNext]_tunerVars

------------------------------------------------------------------------------
(* All connected features show the one tuner there is: its band with that  *)
(* band's limits and frequency, a station of that band and, when they show *)
(* a scan, one that is running, whichever of them tuned, sought, switched  *)
(* the band or came late.  The bands keep their frequencies apart, so a    *)
(* switch has to bring everything along.                                   *)
TunerAgrees ==
    \A t \in attached :
        /\ shown[t].band = band /\ shown[t].limits = band
        /\ shown[t].frequency = frequency[band]
        /\ shown[t].station # NoStation => shown[t].station[1] = band
        /\ shown[t].scanRunning => scanning

(* Whoever moves the tuner, every connected feature then shows the station *)
(* at the place it moved to, or none when there is none: the station of    *)
(* the place before does not stay.                                         *)
StationFollows ==
    [][<<band, frequency[band]>>' # <<band, frequency[band]>> =>
            \A t \in attached' :
                shown'[t].station = StationAt(band', frequency'[band'])]_tunerVars
==============================================================================
