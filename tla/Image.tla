------------------------------- MODULE Image -------------------------------
(***************************************************************************)
(* An application image holds one application: appimg_enter of the demo    *)
(* that the build chose starts its threads and no other's.  The small      *)
(* applications are put together here; the one in `app` runs, the others   *)
(* stay as their variables were linked.                                    *)
(***************************************************************************)
EXTENDS RecorderRing, PocPlay, SocketDemos, MultiSocket, UsbDaemon, EventGroup,
        TaskNotify, UpdateStart, AliyunAnswers, BleServer, AddressText

VARIABLE app   \* the application the image was built with

Apps == {"record", "play", "socket", "multi", "usb", "event", "notify", "update",
         "aliyun", "bleServer", "text"}

imageVars == <<app, recVars, playVars, sockVars, sktVars, usbVars, eventVars,
               notifyVars, updVars, aliVars, bleServerVars, textVars>>

\* A choice that only matters to an application in the image is made there.
ChosenBy(name, choice, default) == app = name \/ choice = default

ImageInit ==
  /\ app \in Apps
  /\ RecInit    /\ ChosenBy("record", recorder, "stream")
  /\ PlayInit   /\ ChosenBy("play", filePlaySize, CHOOSE n \in FileSizes : TRUE)
  /\ SocketInit /\ ChosenBy("socket", demo, "select")
  /\ SktInit /\ UsbInit /\ EventInit /\ NotifyInit /\ UpdInit /\ AliInit /\ BleServerInit
  /\ IF app = "text" THEN TextInit ELSE textIn = NoInput /\ textOut = <<"none">>

\* The applications that are not in the image.
Idle(name, itsVars) == IF app = name THEN TRUE ELSE UNCHANGED itsVars

OthersIdle ==
  /\ Idle("record", recVars) /\ Idle("play", playVars) /\ Idle("socket", sockVars)
  /\ Idle("multi", sktVars) /\ Idle("usb", usbVars) /\ Idle("event", eventVars)
  /\ Idle("notify", notifyVars) /\ Idle("update", updVars) /\ Idle("aliyun", aliVars)
  /\ Idle("bleServer", bleServerVars) /\ Idle("text", textVars)
  /\ UNCHANGED app

RecordStep == app = "record" /\ RecNext /\ OthersIdle
PlayStep   == app = "play" /\ PlayNext /\ OthersIdle
SocketStep == app = "socket" /\ SocketNext /\ OthersIdle
MultiStep  == app = "multi" /\ SktNext /\ OthersIdle
UsbStep    == app = "usb" /\ UsbNext /\ OthersIdle
EventStep  == app = "event" /\ EventNext /\ OthersIdle
NotifyStep == app = "notify" /\ NotifyNext /\ OthersIdle
UpdateStep == app = "update" /\ UpdNext /\ OthersIdle
AliyunStep == app = "aliyun" /\ AliNext /\ OthersIdle
ServerStep == app = "bleServer" /\ BleServerNext /\ OthersIdle
TextStep   == app = "text" /\ TextNext /\ OthersIdle

ImageNext ==
  \/ RecordStep \/ PlayStep \/ SocketStep \/ MultiStep \/ UsbStep
  \/ EventStep \/ NotifyStep \/ UpdateStep \/ AliyunStep \/ ServerStep \/ TextStep

\* The threads, the interrupt and the audio driver are scheduled, and the modem
\* indicates what became of an activation; no peer and no host has to do
\* anything.
ImageFairness ==
  /\ WF_imageVars(PlayStep)
  /\ WF_imageVars(SocketStep /\ SocketThread)
  /\ WF_imageVars(UsbStep /\ UsbThread)
  /\ WF_imageVars(EventStep /\ Reader)
  /\ WF_imageVars(EventStep /\ (Setter \/ Isr))
  /\ WF_imageVars(NotifyStep)
  /\ WF_imageVars(UpdateStep /\ UpdThread)
  /\ WF_imageVars(UpdateStep /\ UpdAnswers)

ImageSpec == ImageInit /\ [][ImageNext]_imageVars /\ ImageFairness

-----------------------------------------------------------------------------

\* The variables of all applications keep their types, in whichever image.
ImageTypeOK ==
  /\ app \in Apps
  /\ RingTypeOK /\ PlayTypeOK /\ SocketTypeOK
  /\ SktTypeOK /\ UsbTypeOK /\ EventTypeOK
  /\ NotifyTypeOK /\ UpdTypeOK /\ AliTypeOK /\ BleServerTypeOK

\* The image that plays a file short enough plays it to its end
\* (fibo_audio_poc_play_record_start_demo.c).
ImagePlays == app = "play" => PlaysShortFiles

\* In the image that holds it, a service that waits goes on when what it waits
\* for has come: the USB thread when the port is open again (usb_demo.c:109),
\* the reader of events when a bit is set (eventGroup_demo.c:54), each of
\* two tasks when the other has notified it (taskNotify_demo.c:38), the update
\* when the PDP context has been asked for and is there (fota_demo.c:281).
ServicesGoOn ==
  /\ app = "usb" => UsbResumes
  /\ app = "event" => EventsReach
  /\ app = "notify" => TasksGoOn
  /\ app = "update" => UpdateStarts

=============================================================================
