-------------------------- MODULE LibretroCommands --------------------------
(***************************************************************************)
(* The environment commands of libretro.h: what a core can ask its         *)
(* frontend for through the callback that retro_set_environment hands it.  *)
(* Of each, the header fixes the number it is recognised by, the entry    *)
(* points of the core within which it may be sent, and whether its data    *)
(* may be NULL; what it is for is in the comment, the shape of its data    *)
(* left out.                                                               *)
(***************************************************************************)
EXTENDS Integers

(* The entry points of a core that hand it a callback. *)
Setters ==
  {"set_environment", "set_video_refresh", "set_audio_sample",
   "set_audio_sample_batch", "set_input_poll", "set_input_state"}

(* The entry points that a frontend of this version must find in a core,   *)
(* but for those of cheats, reset, regions and controllers, which the      *)
(* program does not resolve.                                               *)
EntryPoints ==
  Setters \union
  {"api_version", "get_system_info", "init", "load_game", "get_system_av_info",
   "run", "serialize_size", "serialize", "unserialize",
   "get_memory_size", "get_memory_data", "unload_game", "deinit"}

Anytime       == EntryPoints
WhileLoading  == {"load_game"}
WhileRunning  == {"run"}
BeforeRunning == EntryPoints \ {"run"}

(* Numbers of the commands that may still change carry one more bit.       *)
Experimental(n) == n + 65536

(* What the pointer that comes with a command may be. *)
Given   == "given"   \* never NULL, or the header does not say what NULL means
Probe   == "probe"   \* NULL only asks whether the command is available
Reset   == "reset"   \* NULL takes back what was set before
Refused == "refused" \* NULL is answered with false
Unused  == "unused"  \* ignored

Command(n, within, data) == [number |-> n, within |-> within, data |-> data]
MayBeNull(cmd) == cmd.data # Given

-----------------------------------------------------------------------------
(* Screen, time and the end of the program. *)

(* Turns the screen by a multiple of 90 degrees. *)
SET_ROTATION == Command(1, Anytime, Given)

(* Whether borders are to be shown (deprecated). *)
GET_OVERSCAN == Command(2, Anytime, Given)

(* Whether a frame may be given as NULL, "as the last". *)
GET_CAN_DUPE == Command(3, Anytime, Given)

(* Shows a message. *)
SET_MESSAGE == Command(6, Anytime, Given)

(* Asks the frontend to end the game. *)
SHUTDOWN == Command(7, Anytime, Unused)

(* How demanding the game is. *)
SET_PERFORMANCE_LEVEL == Command(8, WhileLoading, Given)

-----------------------------------------------------------------------------
(* Directories, pixels and input. *)

(* Where BIOS images are; the string stays the frontend's. *)
GET_SYSTEM_DIRECTORY == Command(9, Anytime, Given)

(* The format of every later frame. *)
SET_PIXEL_FORMAT == Command(10, WhileLoading \union {"get_system_av_info"}, Given)

(* Names of the buttons. *)
SET_INPUT_DESCRIPTORS == Command(11, Anytime, Given)

(* A callback for key presses. *)
SET_KEYBOARD_CALLBACK == Command(12, Anytime, Given)

(* Callbacks to change discs. *)
SET_DISK_CONTROL_INTERFACE == Command(13, Anytime, Reset)

(* Asks for a context of a graphics API to render with. *)
SET_HW_RENDER == Command(14, WhileLoading, Refused)

-----------------------------------------------------------------------------
(* Options, first form. *)

(* The chosen value of one option. *)
GET_VARIABLE == Command(15, Anytime, Probe)

(* Declares the options and their values. *)
SET_VARIABLES == Command(16, Anytime, Probe)

(* Whether a value was chosen since the last time. *)
GET_VARIABLE_UPDATE == Command(17, Anytime, Given)

(* The core can run without content. *)
SET_SUPPORT_NO_GAME == Command(18, {"set_environment"}, Given)

-----------------------------------------------------------------------------
(* Paths and clocks. *)

(* Where the core itself was loaded from. *)
GET_LIBRETRO_PATH == Command(19, Anytime, Given)

(* A callback before each run with the time that passed. *)
SET_FRAME_TIME_CALLBACK == Command(21, Anytime, Given)

(* A callback that asks for sound. *)
SET_AUDIO_CALLBACK == Command(22, Anytime, Probe)

-----------------------------------------------------------------------------
(* Devices. *)

(* Rumble motors. *)
GET_RUMBLE_INTERFACE == Command(23, {"init"} \union WhileLoading, Given)

(* The kinds of input device there are. *)
GET_INPUT_DEVICE_CAPABILITIES == Command(24, WhileRunning, Given)

(* Motion and light sensors. *)
GET_SENSOR_INTERFACE == Command(Experimental(25), Anytime, Given)

(* A camera. *)
GET_CAMERA_INTERFACE == Command(Experimental(26), WhileLoading, Given)

(* A log. *)
GET_LOG_INTERFACE == Command(27, Anytime, Given)

(* Performance counters. *)
GET_PERF_INTERFACE == Command(28, Anytime, Given)

(* A position. *)
GET_LOCATION_INTERFACE == Command(29, Anytime, Given)

(* The former name of GET_CORE_ASSETS_DIRECTORY. *)
GET_CONTENT_DIRECTORY == Command(30, Anytime, Given)

(* Where the core's own files are. *)
GET_CORE_ASSETS_DIRECTORY == Command(30, Anytime, Given)

(* Where saves are; the string stays the frontend's. *)
GET_SAVE_DIRECTORY == Command(31, Anytime, Given)

-----------------------------------------------------------------------------
(* Timing, memory and controllers. *)

(* Another rate or another maximum size. *)
SET_SYSTEM_AV_INFO == Command(32, WhileRunning, Refused)

(* Private extensions of a core. *)
SET_PROC_ADDRESS_CALLBACK == Command(33, {"set_environment"}, Given)

(* Games of several files. *)
SET_SUBSYSTEM_INFO == Command(34, {"set_environment"}, Given)

(* The devices a port takes. *)
SET_CONTROLLER_INFO == Command(35, WhileLoading, Given)

(* Where a system's memory is. *)
SET_MEMORY_MAPS == Command(Experimental(36), Anytime, Given)

(* Another size within the maximum. *)
SET_GEOMETRY == Command(37, WhileRunning, Given)

(* The player's name. *)
GET_USERNAME == Command(38, Anytime, Given)

(* The player's language. *)
GET_LANGUAGE == Command(39, Anytime, Given)

(* A buffer of the frontend to draw the next frame in. *)
GET_CURRENT_SOFTWARE_FRAMEBUFFER == Command(Experimental(40), WhileRunning, Given)

(* The graphics API behind the context. *)
GET_HW_RENDER_INTERFACE == Command(Experimental(41), Anytime, Given)

(* Whether memory is exposed for achievements. *)
SET_SUPPORT_ACHIEVEMENTS == Command(Experimental(42), BeforeRunning, Given)

(* A hand in how the context is made. *)
SET_HW_RENDER_CONTEXT_NEGOTIATION_INTERFACE ==
  Command(Experimental(43), Anytime, Given)

(* A context shared with the frontend's. *)
SET_HW_SHARED_CONTEXT == Command(Experimental(44), Anytime, Unused)

(* The frontend's files. *)
GET_VFS_INTERFACE == Command(Experimental(45), Anytime, Given)

(* Places the frontend's files may be in. *)
GET_VFS_AUTHORIZED_LOCATIONS == Command(Experimental(93), Anytime, Probe)

(* Lights. *)
GET_LED_INTERFACE == Command(Experimental(46), Anytime, Probe)

(* Whether picture or sound of this frame are wanted. *)
GET_AUDIO_VIDEO_ENABLE == Command(Experimental(47), Anytime, Probe)

(* MIDI devices. *)
GET_MIDI_INTERFACE == Command(Experimental(48), Anytime, Probe)

(* Whether the frontend is running fast. *)
GET_FASTFORWARDING == Command(Experimental(49), Anytime, Given)

(* The refresh rate of the screen. *)
GET_TARGET_REFRESH_RATE == Command(Experimental(50), Anytime, Given)

(* Whether all buttons can be read at once. *)
GET_INPUT_BITMASKS == Command(Experimental(51), Anytime, Unused)

-----------------------------------------------------------------------------
(* Options, later forms. *)

(* Which form of options the frontend reads. *)
GET_CORE_OPTIONS_VERSION == Command(52, Anytime, Given)

(* Declares options, second form. *)
SET_CORE_OPTIONS == Command(53, Anytime, Reset)

(* The second form with a translation. *)
SET_CORE_OPTIONS_INTL == Command(54, Anytime, Given)

(* Shows or hides an option. *)
SET_CORE_OPTIONS_DISPLAY == Command(55, Anytime, Probe)

(* The graphics API the frontend prefers. *)
GET_PREFERRED_HW_RENDER == Command(56, Anytime, Given)

(* Which form of disc control is understood. *)
GET_DISK_CONTROL_INTERFACE_VERSION == Command(57, Anytime, Given)

(* Callbacks to change discs, second form. *)
SET_DISK_CONTROL_EXT_INTERFACE == Command(58, {"init"}, Reset)

(* Which form of messages is understood. *)
GET_MESSAGE_INTERFACE_VERSION == Command(59, Anytime, Given)

(* Shows a message, second form. *)
SET_MESSAGE_EXT == Command(60, Anytime, Given)

(* How many ports are in use. *)
GET_INPUT_MAX_USERS == Command(61, Anytime, Given)

(* A callback before each run with the fill of the sound buffer. *)
SET_AUDIO_BUFFER_STATUS_CALLBACK == Command(62, Anytime, Reset)

(* A lower bound for the sound buffer. *)
SET_MINIMUM_AUDIO_LATENCY == Command(63, WhileRunning, Reset)

(* Has the frontend run fast, or not. *)
SET_FASTFORWARDING_OVERRIDE == Command(64, Anytime, Probe)

(* How single kinds of file are handed over. *)
SET_CONTENT_INFO_OVERRIDE == Command(65, {"set_environment"}, Probe)

(* More about the content being loaded. *)
GET_GAME_INFO_EXT == Command(66, WhileLoading, Given)

(* Declares options, third form, with categories. *)
SET_CORE_OPTIONS_V2 == Command(67, Anytime, Reset)

(* The third form with a translation. *)
SET_CORE_OPTIONS_V2_INTL == Command(68, Anytime, Given)

(* A callback that shows and hides options. *)
SET_CORE_OPTIONS_UPDATE_DISPLAY_CALLBACK ==
  Command(69, {"set_environment"}, Reset)

(* Chooses the value of an option. *)
SET_VARIABLE == Command(70, Anytime, Probe)

-----------------------------------------------------------------------------
(* Frontend state and memory. *)

(* How fast the frontend is trying to run. *)
GET_THROTTLE_STATE == Command(Experimental(71), Anytime, Given)

(* What a save state is for. *)
GET_SAVESTATE_CONTEXT == Command(Experimental(72), Anytime, Probe)

(* Which form of that negotiation is understood. *)
GET_HW_RENDER_CONTEXT_NEGOTIATION_INTERFACE_SUPPORT ==
  Command(Experimental(73), Anytime, Given)

(* Whether the process may run code it writes. *)
GET_JIT_CAPABLE == Command(74, Anytime, Given)

(* A microphone. *)
GET_MICROPHONE_INTERFACE == Command(Experimental(75), Anytime, Refused)

(* Callbacks for a network game. *)
SET_NETPACKET_INTERFACE == Command(78, {"init"} \union WhileLoading, Given)

(* The state of the battery; the header defines it twice. *)
GET_DEVICE_POWER == Command(Experimental(77), Anytime, Probe)

(* Where playlists are. *)
GET_PLAYLIST_DIRECTORY == Command(79, Anytime, Given)

(* Where file dialogs start. *)
GET_FILE_BROWSER_START_DIRECTORY == Command(80, Anytime, Given)

(* The rate of the sound output. *)
GET_TARGET_SAMPLE_RATE == Command(Experimental(81), Anytime, Given)

(* This player in a network game. *)
GET_NETPLAY_CLIENT_INDEX == Command(Experimental(82), Anytime, Given)

(* Memory for code. *)
EXEC_MEM_ALLOC == Command(83, Anytime, Given)

(* Gives it back. *)
EXEC_MEM_FREE == Command(84, Anytime, Given)

(* A callback for sound as floats. *)
GET_AUDIO_SAMPLE_BATCH_FLOAT == Command(Experimental(85), WhileLoading, Given)

(* How much memory is free. *)
GET_MEMORY_STATUS == Command(Experimental(86), Anytime, Given)

(* What save states of this core cannot do. *)
SET_SERIALIZATION_QUIRKS == Command(87, {"init"} \union WhileLoading, Given)

(* Whether the screen has ten bits per colour. *)
GET_SCREEN_10BPC_CAPABLE == Command(Experimental(88), Anytime, Given)

(* Brightness of white. *)
GET_HDR_PAPER_WHITE_NITS == Command(Experimental(89), Anytime, Given)

(* Whether colours are widened. *)
GET_HDR_EXPAND_GAMUT == Command(Experimental(90), Anytime, Given)

(* How bright pictures are sent to the screen. *)
GET_HDR_OUTPUT_MODE == Command(Experimental(91), Anytime, Given)

(* Brightness of the screen. *)
GET_HDR_MAX_NITS == Command(Experimental(92), Anytime, Given)

-----------------------------------------------------------------------------
Commands ==
  {SET_ROTATION, GET_OVERSCAN, GET_CAN_DUPE, SET_MESSAGE, SHUTDOWN,
   SET_PERFORMANCE_LEVEL, GET_SYSTEM_DIRECTORY, SET_PIXEL_FORMAT,
   SET_INPUT_DESCRIPTORS, SET_KEYBOARD_CALLBACK, SET_DISK_CONTROL_INTERFACE,
   SET_HW_RENDER, GET_VARIABLE, SET_VARIABLES, GET_VARIABLE_UPDATE,
   SET_SUPPORT_NO_GAME, GET_LIBRETRO_PATH, SET_FRAME_TIME_CALLBACK,
   SET_AUDIO_CALLBACK, GET_RUMBLE_INTERFACE, GET_INPUT_DEVICE_CAPABILITIES,
   GET_SENSOR_INTERFACE, GET_CAMERA_INTERFACE, GET_LOG_INTERFACE,
   GET_PERF_INTERFACE, GET_LOCATION_INTERFACE, GET_CONTENT_DIRECTORY,
   GET_CORE_ASSETS_DIRECTORY, GET_SAVE_DIRECTORY, SET_SYSTEM_AV_INFO,
   SET_PROC_ADDRESS_CALLBACK, SET_SUBSYSTEM_INFO, SET_CONTROLLER_INFO,
   SET_MEMORY_MAPS, SET_GEOMETRY, GET_USERNAME, GET_LANGUAGE,
   GET_CURRENT_SOFTWARE_FRAMEBUFFER, GET_HW_RENDER_INTERFACE,
   SET_SUPPORT_ACHIEVEMENTS, SET_HW_RENDER_CONTEXT_NEGOTIATION_INTERFACE,
   SET_HW_SHARED_CONTEXT, GET_VFS_INTERFACE, GET_VFS_AUTHORIZED_LOCATIONS,
   GET_LED_INTERFACE, GET_AUDIO_VIDEO_ENABLE, GET_MIDI_INTERFACE,
   GET_FASTFORWARDING, GET_TARGET_REFRESH_RATE, GET_INPUT_BITMASKS,
   GET_CORE_OPTIONS_VERSION, SET_CORE_OPTIONS, SET_CORE_OPTIONS_INTL,
   SET_CORE_OPTIONS_DISPLAY, GET_PREFERRED_HW_RENDER,
   GET_DISK_CONTROL_INTERFACE_VERSION, SET_DISK_CONTROL_EXT_INTERFACE,
   GET_MESSAGE_INTERFACE_VERSION, SET_MESSAGE_EXT, GET_INPUT_MAX_USERS,
   SET_AUDIO_BUFFER_STATUS_CALLBACK, SET_MINIMUM_AUDIO_LATENCY,
   SET_FASTFORWARDING_OVERRIDE, SET_CONTENT_INFO_OVERRIDE, GET_GAME_INFO_EXT,
   SET_CORE_OPTIONS_V2, SET_CORE_OPTIONS_V2_INTL,
   SET_CORE_OPTIONS_UPDATE_DISPLAY_CALLBACK, SET_VARIABLE, GET_THROTTLE_STATE,
   GET_SAVESTATE_CONTEXT, GET_HW_RENDER_CONTEXT_NEGOTIATION_INTERFACE_SUPPORT,
   GET_JIT_CAPABLE, GET_MICROPHONE_INTERFACE, SET_NETPACKET_INTERFACE,
   GET_DEVICE_POWER, GET_PLAYLIST_DIRECTORY, GET_FILE_BROWSER_START_DIRECTORY,
   GET_TARGET_SAMPLE_RATE, GET_NETPLAY_CLIENT_INDEX, EXEC_MEM_ALLOC,
   EXEC_MEM_FREE, GET_AUDIO_SAMPLE_BATCH_FLOAT, GET_MEMORY_STATUS,
   SET_SERIALIZATION_QUIRKS, GET_SCREEN_10BPC_CAPABLE,
   GET_HDR_PAPER_WHITE_NITS, GET_HDR_EXPAND_GAMUT, GET_HDR_OUTPUT_MODE,
   GET_HDR_MAX_NITS}
=============================================================================
