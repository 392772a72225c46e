-------------------------- MODULE MicrophoneTest --------------------------
(***************************************************************************)
(* The profile page (profile/page.tsx): the microphone test, the devices   *)
(* it lists and the photo.  A test awaits three answers of the browser:    *)
(* the stream, the audio context, the devices.  Between them the user may  *)
(* press the button again, stop, or leave the page; the continuation then  *)
(* runs on, with the refs of the visit it began in.  A stream is named by  *)
(* the test that asked for it and is held until its tracks are stopped.    *)
(***************************************************************************)
EXTENDS WaveCastPage, Naturals, FiniteSets

CONSTANTS Tests,      \* bound: tests that await an answer or hold a stream at once
          Mics,       \* the microphones that may be plugged in
          First,      \* each set of microphones, to the one the browser lists first
          Unnamed,    \* the device listed, with an empty id, before permission
          NoTest,
          NoMic       \* the empty device id

ASSUME MicAssumption ==
    /\ NoTest \notin Tests /\ NoMic \notin Mics
    /\ Unnamed \notin Mics \cup {NoMic}
    /\ First \in [SUBSET Mics -> Mics \cup {NoMic}]
    /\ First[{}] = NoMic
    /\ \A S \in SUBSET Mics : S # {} => First[S] \in S

VARIABLES tests,         \* what each test awaits, and for which visit and device
          held,          \* the streams whose tracks have not been stopped
          loops,         \* the tests of this visit whose frame loop runs
          micStream,     \* micStreamRef of this visit
          lastFrame,     \* animationFrameRef of this visit: whose frame it is
          isMicTesting,
          permission,
          plugged,       \* the microphones there are
          devices,       \* what the page lists
          refreshing,    \* the list is being read for this visit's mount
          selectedMic,
          photo, photoUrls   \* the avatar shown; the live object URLs

testVars   == <<tests, held, loops, micStream, lastFrame, isMicTesting, permission>>
deviceVars == <<plugged, devices, refreshing, selectedMic>>
photoVars  == <<photo, photoUrls>>
micVars    == <<testVars, deviceVars, photoVars>>

NoCall == [awaits |-> "nothing", here |-> FALSE, mic |-> NoMic]

UnderWay == {t \in Tests : tests[t].awaits # "nothing"}

\* A test whose name may be used anew.
Free == Tests \ (UnderWay \cup held \cup loops \cup {micStream, lastFrame})

OnProfile == page = "profile" /\ UNCHANGED page

(***************************************************************************)
(* Devices.                                                                *)
(***************************************************************************)

\* What the browser lists.  It tells the ids while the page holds a stream or
\* has a permission that lasts; else one device without an id stands for all.
Listings == {IF plugged = {} THEN {} ELSE {Unnamed}, plugged}

\* The id of the first device of a list.
FirstId(list) == IF Unnamed \in list THEN NoMic ELSE First[list]

\* refreshDevices, when the browser has answered: a choice once made stays,
\* whether or not its device is still there.
DevicesRead ==
    \E list \in IF held = {} THEN Listings ELSE {plugged} :
        /\ devices' = list
        /\ selectedMic' = IF selectedMic # NoMic THEN selectedMic ELSE FirstId(list)

MountRefresh(ok) ==
    /\ OnProfile /\ refreshing
    /\ refreshing' = FALSE
    /\ IF ok THEN DevicesRead ELSE UNCHANGED <<devices, selectedMic>>
    /\ UNCHANGED <<plugged, testVars, photoVars>>

\* What the select shows: the first device when the chosen one is not listed.
ShownMic ==
    IF selectedMic \in devices THEN selectedMic
    ELSE IF Unnamed \in devices THEN Unnamed ELSE First[devices]

\* The select reports only a device other than the one it shows: the one it
\* shows in place of a device that has gone cannot be chosen, nor can the one
\* without an id, which is alone in its list.
ChooseMic(m) ==
    /\ OnProfile
    /\ m \in devices /\ m # ShownMic
    /\ selectedMic' = m
    /\ UNCHANGED <<plugged, devices, refreshing, testVars, photoVars>>

\* A microphone is plugged in or pulled out; the page does not listen.
Plug(m) ==
    /\ plugged' = IF m \in plugged THEN plugged \ {m} ELSE plugged \cup {m}
    /\ UNCHANGED <<page, devices, refreshing, selectedMic, testVars, photoVars>>

(***************************************************************************)
(* The test.                                                               *)
(***************************************************************************)

\* The tracks of the stream are not stopped.
StopForgetsTracks ==
    /\ UNCHANGED held
    /\ lastFrame' = NoTest /\ micStream' = NoTest
    /\ isMicTesting' = FALSE

\* stopMicrophoneTest: the last frame is cancelled, the stream of the ref is
\* stopped.
StopTest ==
    /\ held' = held \ {micStream}
    /\ lastFrame' = NoTest /\ micStream' = NoTest
    /\ isMicTesting' = FALSE

\* With several loops only the one that asked for the last frame ends.
PressStop ==
    /\ OnProfile /\ isMicTesting
    /\ StopTest
    /\ loops' = loops \ {lastFrame}
    /\ UNCHANGED <<tests, permission, deviceVars, photoVars>>

\* The button while no test shows: the browser is asked for a stream.
PressTest(t) ==
    /\ OnProfile /\ ~isMicTesting
    /\ t \in Free
    /\ tests' = [tests EXCEPT ![t] = [awaits |-> "stream", here |-> TRUE, mic |-> selectedMic]]
    /\ UNCHANGED <<held, loops, micStream, lastFrame, isMicTesting, permission,
                   deviceVars, photoVars>>

\* The button still says that a test runs.
FailsKeepsTesting(t) ==
    /\ tests' = [tests EXCEPT ![t] = NoCall]
    /\ permission' = IF tests[t].here THEN "blocked" ELSE permission
    /\ UNCHANGED isMicTesting

\* The catch of testMicrophone; the state of a page that has gone is not set.
Fails(t) ==
    /\ tests' = [tests EXCEPT ![t] = NoCall]
    /\ IF tests[t].here
       THEN permission' = "blocked" /\ isMicTesting' = FALSE
       ELSE UNCHANGED <<permission, isMicTesting>>

\* getUserMedia answers; it can grant only a device that is there.
StreamComes(t) ==
    /\ tests[t].awaits = "stream"
    /\ IF tests[t].mic = NoMic THEN plugged # {} ELSE tests[t].mic \in plugged
    /\ held' = held \cup {t}
    /\ tests' = [tests EXCEPT ![t].awaits = "context"]
    /\ UNCHANGED <<page, loops, micStream, lastFrame, isMicTesting, permission,
                   deviceVars, photoVars>>

\* audioContext.resume() answers: the refs are set, over what they held.
ContextResumes(t) ==
    /\ tests[t].awaits = "context"
    /\ tests' = [tests EXCEPT ![t].awaits = "devices"]
    /\ IF tests[t].here
       THEN micStream' = t /\ isMicTesting' = TRUE /\ permission' = "ready"
       ELSE UNCHANGED <<micStream, isMicTesting, permission>>
    /\ UNCHANGED <<page, held, loops, lastFrame, deviceVars, photoVars>>

\* refreshDevices answers: the loop starts and asks for its first frame.
LoopStarts(t) ==
    /\ tests[t].awaits = "devices"
    /\ tests' = [tests EXCEPT ![t] = NoCall]
    /\ IF tests[t].here
       THEN loops' = loops \cup {t} /\ lastFrame' = t /\ DevicesRead
       ELSE UNCHANGED <<loops, lastFrame, devices, selectedMic>>
    /\ UNCHANGED <<page, held, micStream, isMicTesting, permission,
                   plugged, refreshing, photoVars>>

\* One of the three is refused.
Refused(t) ==
    /\ t \in UnderWay
    /\ Fails(t)
    /\ UNCHANGED <<page, held, loops, micStream, lastFrame, deviceVars, photoVars>>

\* A frame of a loop: it asks for the next one, a test having been stopped
\* since or not.
Frame(t) ==
    /\ OnProfile
    /\ t \in loops
    /\ lastFrame' = t
    /\ UNCHANGED <<tests, held, loops, micStream, isMicTesting, permission,
                   deviceVars, photoVars>>

(***************************************************************************)
(* The photo.                                                              *)
(***************************************************************************)

\* 0 is no photo, 1 the user's own, a greater number an object URL.
Own == 1

\* handleAvatarChange: the URL before it, if any, is revoked.
ChangePhoto ==
    /\ OnProfile
    /\ LET url == IF photo = 2 THEN 3 ELSE 2
       IN photo' = url /\ photoUrls' = (photoUrls \ {photo}) \cup {url}
    /\ UNCHANGED <<testVars, deviceVars>>

RemovePhoto ==
    /\ OnProfile
    /\ photo' = 0
    /\ photoUrls' = photoUrls \ {photo}
    /\ UNCHANGED <<testVars, deviceVars>>

(***************************************************************************)
(* The page.                                                               *)
(***************************************************************************)

\* Leaving stops the test and revokes the photo's URL; what is still awaited
\* belongs to no visible page from then on, nor does a loop that goes on: its
\* refs and state are those of the page that has gone.  Entering starts anew
\* and reads the devices.
ProfileGoTo(to) ==
    /\ StopTest
    /\ loops' = {}
    /\ tests' = [t \in Tests |-> [tests[t] EXCEPT !.here = FALSE]]
    /\ permission' = "idle"
    /\ devices' = {} /\ selectedMic' = NoMic
    /\ refreshing' = (to = "profile")
    /\ photo' = Own
    /\ photoUrls' = photoUrls \ {photo}
    /\ UNCHANGED plugged

ProfileInit ==
    /\ tests = [t \in Tests |-> NoCall]
    /\ held = {} /\ loops = {}
    /\ micStream = NoTest /\ lastFrame = NoTest
    /\ isMicTesting = FALSE /\ permission = "idle"
    /\ plugged \in SUBSET Mics
    /\ devices = {} /\ selectedMic = NoMic
    /\ refreshing = (page = "profile")
    /\ photo = Own /\ photoUrls = {}

DevicesPanel ==
    \/ PressStop
    \/ \E t \in Tests : PressTest(t)
    \/ \E m \in Mics : ChooseMic(m)

PhotoPanel == ChangePhoto \/ RemovePhoto

ProfileStep ==
    \/ DevicesPanel
    \/ \E t \in Tests :
          StreamComes(t) \/ ContextResumes(t) \/ LoopStarts(t) \/ Refused(t) \/ Frame(t)
    \/ \E ok \in BOOLEAN : MountRefresh(ok)
    \/ \E m \in Mics : Plug(m)
    \/ PhotoPanel

ProfileNext == ProfileStep \/ \E to \in Pages : ChangePage(to) /\ ProfileGoTo(to)

ProfileSpec == page \in Pages /\ ProfileInit /\ [][ProfileNext]_<<page, micVars>>

(***************************************************************************)
(* Properties.                                                             *)
(***************************************************************************)

ProfileTypeOK ==
    /\ tests \in [Tests -> [awaits : {"nothing", "stream", "context", "devices"},
                            here : BOOLEAN, mic : Mics \cup {NoMic}]]
    /\ held \subseteq Tests /\ loops \subseteq Tests
    /\ micStream \in Tests \cup {NoTest} /\ lastFrame \in Tests \cup {NoTest}
    /\ isMicTesting \in BOOLEAN
    /\ permission \in {"idle", "ready", "blocked"}
    /\ plugged \subseteq Mics /\ devices \subseteq Mics \cup {Unnamed}
    /\ selectedMic \in Mics \cup {NoMic}

\* The photo shown is live, and no other object URL is (handleAvatarChange,
\* removeAvatar, and the cleanup when the page goes).
PhotoLive == photoUrls = {photo} \ {0, Own}

\* While the button says that a test runs there is a stream it will stop, and
\* the permission is shown as given: however calls overlapped, failed or were
\* stopped between their awaits.  With it the types, the photo, and a
\* microphone chosen as soon as the page knows one by its id.
TestingHasStream ==
    /\ ProfileTypeOK
    /\ PhotoLive
    /\ devices \cap Mics # {} => selectedMic # NoMic
    /\ isMicTesting => micStream \in held /\ permission = "ready"
    /\ micStream # NoTest => micStream \in held
    /\ page # "profile" => micStream = NoTest /\ ~isMicTesting

\* A stream the microphone is held for, that no ref names and no test under
\* way will put into one: nothing stops it any more.
Stray == {t \in held : t # micStream /\ ~(tests[t].here /\ tests[t].awaits = "context")}

\* A stream goes astray only when a second test takes over the ref, when the
\* page is left before the context resumes, or when resuming is refused:
\* stopping, a failing list of devices and leaving during a test do not
\* lose one.
StrayOnlyByOverlap ==
    [][\A t \in Stray' \ Stray :
          \/ micStream = t /\ micStream' \in Tests \ {t}
          \/ tests[t].awaits \in {"stream", "context"} /\ ~tests[t].here
          \/ tests[t].awaits = "context" /\ (page' # page \/ tests'[t].awaits = "nothing")]_micVars

===========================================================================
