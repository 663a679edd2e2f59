------------------------------- MODULE OpenGL --------------------------------
(***************************************************************************)
(* The OpenGL programs of SDL3/: the loader of glad and the programs that  *)
(* call what it has loaded.                                                *)
(***************************************************************************)
EXTENDS Naturals, Sequences, FiniteSets

(***************************************************************************)
(* glad.c of SDL3/GL: how the pointers through which the programs call     *)
(* OpenGL are filled in.  A program calls a command by a macro of glad.h,  *)
(* through a pointer that is null until its group is loaded: such a call   *)
(* ends the program ("crashed").  Of each version the model has the        *)
(* commands the programs of the repository call, or one of the others.     *)
(***************************************************************************)
CONSTANTS
  Drivers        \* what GL_VERSION says (a version, Unreadable or NoVersion), the commands missing,
                 \* the number of extensions

NoVersion == <<0, 0>>      \* no context, no string
Unreadable == <<0, 1>>     \* a string without two numbers

VARIABLES
  glpc,          \* idle, open, string, core, load, exts, strings, free, loaded, failed, crashed
  driver,
  own,           \* whether the loader opened libGL itself (gladLoadGL)
  libGL,         \* whether it is open
  pointers,      \* the commands whose pointer is not null
  flags,         \* the versions whose GLAD_GL_VERSION is set
  GLVersion, max_loaded,
  group,         \* the next group of commands
  exts_i, strings   \* whether the array of extensions is allocated, and its strings

glvars == <<glpc, driver, own, libGL, pointers, flags, GLVersion, max_loaded, group, exts_i, strings>>

----------------------------------------------------------------------------
\* The groups, in the order they are loaded in.
load_GL_VERSION_1_0 == {"glTexParameteri", "glClear", "glClearColor", "glGetError", "glGetIntegerv", "glGetString", "glViewport"}
load_GL_VERSION_1_1 == {"glDrawArrays", "glDrawElements", "glTexSubImage2D", "glBindTexture", "glDeleteTextures", "glGenTextures"}
load_GL_VERSION_1_2 == {"glDrawRangeElements"}
load_GL_VERSION_1_3 == {"glActiveTexture"}
load_GL_VERSION_1_4 == {"glBlendFuncSeparate"}
load_GL_VERSION_1_5 == {"glBindBuffer", "glDeleteBuffers", "glGenBuffers", "glBufferData"}
load_GL_VERSION_2_0 ==
  {"glAttachShader", "glCreateProgram", "glCreateShader", "glDeleteProgram", "glDeleteShader",
   "glEnableVertexAttribArray", "glGetProgramiv", "glGetProgramInfoLog", "glGetShaderiv",
   "glGetShaderInfoLog", "glGetUniformLocation", "glLinkProgram", "glUseProgram", "glUniform1i",
   "glVertexAttribPointer"}
load_GL_VERSION_2_1 == {"glUniformMatrix2x3fv"}
load_GL_VERSION_3_0 == {"glGetStringi", "glBindVertexArray", "glDeleteVertexArrays", "glGenVertexArrays"}
load_GL_VERSION_3_1 == {"glDrawArraysInstanced"}
load_GL_VERSION_3_2 == {"glDrawElementsBaseVertex"}
load_GL_VERSION_3_3 == {"glBindFragDataLocationIndexed"}
load_GL_VERSION_4_0 == {"glMinSampleShading"}
load_GL_VERSION_4_1 == {"glShaderBinary"}
load_GL_VERSION_4_2 == {"glBindImageTexture", "glMemoryBarrier", "glTexStorage2D"}
load_GL_VERSION_4_3 == {"glDispatchCompute"}
load_GL_VERSION_4_4 == {"glBufferStorage"}
load_GL_VERSION_4_5 == {"glClipControl"}
load_GL_VERSION_4_6 == {"glSpecializeShader"}

Groups ==
  <<[of |-> <<1, 0>>, commands |-> load_GL_VERSION_1_0], [of |-> <<1, 1>>, commands |-> load_GL_VERSION_1_1],
    [of |-> <<1, 2>>, commands |-> load_GL_VERSION_1_2], [of |-> <<1, 3>>, commands |-> load_GL_VERSION_1_3],
    [of |-> <<1, 4>>, commands |-> load_GL_VERSION_1_4], [of |-> <<1, 5>>, commands |-> load_GL_VERSION_1_5],
    [of |-> <<2, 0>>, commands |-> load_GL_VERSION_2_0], [of |-> <<2, 1>>, commands |-> load_GL_VERSION_2_1],
    [of |-> <<3, 0>>, commands |-> load_GL_VERSION_3_0], [of |-> <<3, 1>>, commands |-> load_GL_VERSION_3_1],
    [of |-> <<3, 2>>, commands |-> load_GL_VERSION_3_2], [of |-> <<3, 3>>, commands |-> load_GL_VERSION_3_3],
    [of |-> <<4, 0>>, commands |-> load_GL_VERSION_4_0], [of |-> <<4, 1>>, commands |-> load_GL_VERSION_4_1],
    [of |-> <<4, 2>>, commands |-> load_GL_VERSION_4_2], [of |-> <<4, 3>>, commands |-> load_GL_VERSION_4_3],
    [of |-> <<4, 4>>, commands |-> load_GL_VERSION_4_4], [of |-> <<4, 5>>, commands |-> load_GL_VERSION_4_5],
    [of |-> <<4, 6>>, commands |-> load_GL_VERSION_4_6]>>

Commands == UNION {Groups[g].commands : g \in DOMAIN Groups}
AtLeastVersion(v, w) == v[1] > w[1] \/ (v[1] = w[1] /\ v[2] >= w[2])
\* The loader finds a command the driver has, get_proc in libGL or the library's own.
Found(commands) == commands \ driver.missing

GLInit ==
  /\ glpc = "idle" /\ driver \in Drivers /\ own = FALSE /\ libGL = FALSE
  /\ pointers = {} /\ flags = {} /\ GLVersion = <<0, 0>> /\ max_loaded = <<0, 0>>
  /\ group = 1 /\ exts_i = FALSE /\ strings = 0

\* gladLoadGLLoader returns: gladLoadGL closes the library then.
LoaderReturns(how) == glpc' = how /\ libGL' = FALSE
Needs(command) == command \in pointers

----------------------------------------------------------------------------
\* gladLoadGL: no library, one without glXGetProcAddressARB, which stays open, or the loader.
open_gl ==
  /\ glpc = "idle" /\ own' = TRUE
  /\ \/ glpc' = "failed" /\ libGL' \in BOOLEAN
     \/ glpc' = "string" /\ libGL' = TRUE
  /\ UNCHANGED <<driver, pointers, flags, GLVersion, max_loaded, group, exts_i, strings>>

\* gladLoadGLLoader with the loader of SDL.
GivenLoader ==
  /\ glpc = "idle" /\ own' = FALSE /\ glpc' = "string"
  /\ UNCHANGED <<driver, libGL, pointers, flags, GLVersion, max_loaded, group, exts_i, strings>>

\* Without a context glGetString has no version to give.
GetString ==
  /\ glpc = "string"
  /\ GLVersion' = <<0, 0>> /\ pointers' = pointers \cup Found({"glGetString"})
  /\ IF "glGetString" \in Found({"glGetString"}) /\ driver.version # NoVersion
     THEN glpc' = "core" /\ UNCHANGED libGL
     ELSE LoaderReturns("failed")
  /\ UNCHANGED <<driver, own, flags, max_loaded, group, exts_i, strings>>

\* A version that cannot be read leaves major and minor as they were: undefined.
find_coreGL ==
  /\ glpc = "core" /\ glpc' = "load" /\ group' = 1
  /\ \E v \in IF driver.version = Unreadable THEN {<<0, 0>>, <<1, 4>>, <<7, 0>>} ELSE {driver.version} :
       /\ GLVersion' = v
       /\ max_loaded' = IF AtLeastVersion(v, <<4, 6>>) THEN <<4, 6>> ELSE v
       /\ flags' = {Groups[g].of : g \in {g \in DOMAIN Groups : AtLeastVersion(v, Groups[g].of)}}
  /\ UNCHANGED <<driver, own, libGL, pointers, exts_i, strings>>

\* load_GL_VERSION_*, one after the other: a group whose flag is not set is left alone.
LoadGroup ==
  /\ glpc = "load"
  /\ pointers' = IF Groups[group].of \in flags
                 THEN (pointers \ Groups[group].commands) \cup Found(Groups[group].commands)
                 ELSE pointers
  /\ IF group = Len(Groups) THEN glpc' = "exts" /\ UNCHANGED group ELSE group' = group + 1 /\ UNCHANGED glpc
  /\ UNCHANGED <<driver, own, libGL, flags, GLVersion, max_loaded, exts_i, strings>>

Succeeds == LoaderReturns(IF GLVersion = <<0, 0>> THEN "failed" ELSE "loaded")

\* get_exts: one string before version 3, an array from then on; none at all is a failure.
get_exts ==
  /\ glpc = "exts"
  /\ IF max_loaded[1] < 3
     THEN IF Needs("glGetString") THEN Succeeds /\ UNCHANGED exts_i
          ELSE glpc' = "crashed" /\ UNCHANGED <<libGL, exts_i>>
     ELSE IF ~Needs("glGetIntegerv") THEN glpc' = "crashed" /\ UNCHANGED <<libGL, exts_i>>
     ELSE \/ driver.exts > 0 /\ exts_i' = TRUE /\ glpc' = "strings" /\ UNCHANGED libGL
          \/ LoaderReturns("failed") /\ UNCHANGED exts_i
  /\ UNCHANGED <<driver, own, pointers, flags, GLVersion, max_loaded, group, strings>>

\* The strings are copied, as far as there is memory, and with free_exts all freed again.
CopyStrings ==
  /\ glpc = "strings" /\ strings = 0
  /\ IF ~Needs("glGetStringi") THEN glpc' = "crashed" /\ UNCHANGED strings
     ELSE glpc' = "free" /\ strings' \in 0..driver.exts
  /\ UNCHANGED <<driver, own, libGL, pointers, flags, GLVersion, max_loaded, group, exts_i>>

free_exts ==
  /\ glpc = "free" /\ strings' = 0 /\ exts_i' = FALSE /\ Succeeds
  /\ UNCHANGED <<driver, own, pointers, flags, GLVersion, max_loaded, group>>

gladLoadGLLoader == GetString \/ find_coreGL \/ LoadGroup \/ get_exts \/ CopyStrings \/ free_exts
GLNext == open_gl \/ GivenLoader \/ gladLoadGLLoader
GLSpec == GLInit /\ [][GLNext]_glvars

----------------------------------------------------------------------------
Upto(v) == UNION {Groups[g].commands : g \in {g \in DOMAIN Groups : AtLeastVersion(v, Groups[g].of)}}

\* A loader that succeeds has every command up to the version it read, and no others.
AllLoaded == glpc = "loaded" => pointers = Found(Upto(GLVersion)) \cup Found({"glGetString"})

\* A driver that has the commands of the version it names makes no null call in the loader.
Honest == driver.version \notin {NoVersion, Unreadable} /\ driver.missing \cap Upto(driver.version) = {}
NoNullCall == glpc = "crashed" => ~Honest

\* Nothing of the extensions is kept, and a library is closed again unless it was of no use.
Tidy ==
  /\ glpc \in {"loaded", "failed"} => ~exts_i /\ strings = 0
  /\ libGL => own
  /\ glpc = "loaded" => ~libGL
  /\ glpc = "failed" /\ libGL => pointers = {}

\* The loader fills in what it says it has, and gives back what it used.
GLInv == AllLoaded /\ NoNullCall /\ Tidy

(***************************************************************************)
(* The SDL programs: GL4_hello_world/gl_init.c, the library cmx_gl and its *)
(* two examples, and app/main.c, which has a renderer and no OpenGL.  The  *)
(* model has what each program holds, in the order it acquires and gives   *)
(* it back, every call that may fail, and the commands it calls through    *)
(* the loader's pointers.                                                  *)
(***************************************************************************)
CONSTANTS
  Apps           \* a subset of {"gl4", "ex1", "ex2", "app"}

VARIABLES
  app, apc,      \* the program, and its next step
  res,           \* what it holds
  status         \* what it returns: none, success, failure

appvars == <<app, apc, res, status>>

\* Names in a context end with it.
Names == {"vao", "vbo", "ebo", "texture", "vs", "fs", "cs", "program", "compute"}

AppInit ==
  /\ app \in Apps /\ apc = "start" /\ res = {} /\ status = "none"

Gets(from, to, what) == apc = from /\ apc' = to /\ res' = res \cup what /\ UNCHANGED <<app, status>>
Drops(from, to, what) == apc = from /\ apc' = to /\ res' = res \ what /\ UNCHANGED <<app, status>>
\* The program returns, having given back all but what it keeps.
Ends(from, kept, how) == apc = from /\ apc' = "end" /\ res' = res \cap kept /\ status' = how /\ UNCHANGED app
\* Commands are called: the program is gone if one of them has no pointer.
Calls(commands, Step) ==
  IF commands \subseteq pointers THEN Step
  ELSE apc' = "crashed" /\ UNCHANGED <<app, res, status>>
NoLoad == UNCHANGED glvars

----------------------------------------------------------------------------
\* init_sdl and mx_init_sdl: what was acquired is given back when a later call fails.
StartSDL ==
  \/ Gets("start", "window", {"sdl"})
  \/ Ends("start", {}, "failure")
Window ==
  \/ Gets("window", IF app = "app" THEN "renderer" ELSE "context", {"window"})
  \/ Ends("window", {}, "failure")
\* SDL_GL_CreateContext is not checked: without a context the loader finds no version.
Context == Gets("context", "glad", IF driver.version = NoVersion THEN {} ELSE {"context"})
\* A loader that failed leaves the context undestroyed.
Glad ==
  \/ glpc = "loaded" /\ Gets("glad", IF app = "ex2" THEN "image" ELSE "buffers", {})
  \/ glpc = "failed" /\ Ends("glad", {"context"}, "failure")
  \/ glpc = "crashed" /\ Gets("glad", "crashed", {})

mx_init_sdl == StartSDL \/ Window \/ Context \/ Glad

\* mx_close_sdl: a context that cannot be destroyed stays, the rest goes.
mx_close_sdl(from, deleted, how) ==
  \/ Ends(from, {"file"}, how)
  \/ Ends(from, ({"file", "context"} \cup Names) \ deleted, IF app = "ex2" THEN how ELSE "failure")

----------------------------------------------------------------------------
\* mx_read_file and mx_load_spv: a file that is not there, an empty one (which stays open) or a
\* shader that does not compile, gives no shader.  A refused malloc is not seen: undefined.
mx_load_spv(from, to, shader) ==
  \/ \E file \in {{}, {"file"}} : Gets(from, to, file)
  \/ Gets(from, "undefined", {})
  \/ /\ apc = from
     /\ Calls({"glCreateShader", "glShaderBinary", "glSpecializeShader", "glGetShaderiv"},
              \E made \in {{}, {shader}} : Gets(from, to, made))

\* mx_create_shader_program: both shaders are tried; a program that does not link is kept.
mx_create_shader_program ==
  \/ mx_load_spv("vs", "fs", "vs")
  \/ mx_load_spv("fs", "program", "fs")
  \/ IF {"vs", "fs"} \subseteq res
     THEN /\ apc = "program"
          /\ Calls({"glCreateProgram", "glAttachShader", "glLinkProgram", "glGetProgramiv", "glDeleteShader"},
                   /\ apc' = IF app = "ex2" THEN "cs" ELSE "check"
                   /\ res' = (res \ {"vs", "fs"}) \cup {"program"}
                   /\ UNCHANGED <<app, status>>)
     ELSE Drops("program", IF app = "ex2" THEN "cs" ELSE "check", {"vs", "fs"})

\* mx_create_compute_program: a shader of 0 is attached all the same, and nothing links.
mx_create_compute_program ==
  \/ mx_load_spv("cs", "compute", "cs")
  \/ "cs" \in res /\ Drops("compute", "link", {"cs"})
  \/ "cs" \notin res /\ Drops("compute", "check", {})
  \/ Gets("link", "check", {"compute"}) \/ Gets("link", "check", {})

\* The vertex array and its buffers.
Buffers ==
  /\ apc = "buffers"
  /\ Calls({"glGenVertexArrays", "glGenBuffers", "glBindVertexArray", "glBindBuffer", "glBufferData",
            "glVertexAttribPointer", "glEnableVertexAttribArray"},
           IF app = "ex2" THEN Gets("buffers", "texture", {"vao", "vbo", "ebo"})
           ELSE Gets("buffers", "vs", {"vao", "vbo"}))

----------------------------------------------------------------------------
\* ex2: the image, before anything of OpenGL, and its conversion.
Image ==
  \/ Gets("image", "buffers", {"img"})
  \/ mx_close_sdl("image", {}, "failure")
Texture ==
  /\ apc = "texture"
  /\ Calls({"glGenTextures", "glBindTexture", "glTexParameteri"}, Gets("texture", "convert", {"texture"}))
Convert ==
  \/ Gets("convert", "upload", {"rgba"})
  \/ mx_close_sdl("convert", {"texture"}, "failure")
Upload ==
  /\ apc = "upload"
  /\ Calls({"glTexStorage2D", "glTexSubImage2D", "glBindTexture", "glGetError"},
           Drops("upload", "vs", {"img", "rgba"}))

\* Without its programs a main gives everything back.
Needed == IF app = "ex2" THEN {"program", "compute"} ELSE {"program"}
Check ==
  \/ Needed \subseteq res /\ Drops("check", "frames", {})
  \/ ~(Needed \subseteq res) /\ mx_close_sdl("check", {"texture", "vbo", "ebo", "vao"}, "failure")

Draws ==
  {"glUseProgram", "glViewport", "glClearColor", "glClear", "glBindVertexArray"} \cup
  IF app = "ex2"
  THEN {"glBindImageTexture", "glDispatchCompute", "glMemoryBarrier", "glGetError", "glActiveTexture",
        "glBindTexture", "glUniform1i", "glGetUniformLocation", "glDrawElements"}
  ELSE {"glDrawArrays"}
\* A frame, and the events before it: the window's closing or Escape make it the last.
Frame ==
  /\ app # "app" /\ apc = "frames"
  /\ Calls(Draws, Gets("frames", "frames", {}) \/ Gets("frames", "delete", {}))
Delete ==
  /\ apc = "delete"
  /\ Calls({"glDeleteProgram", "glDeleteBuffers", "glDeleteVertexArrays"} \cup
             (IF app = "ex2" THEN {"glDeleteTextures"} ELSE {}),
           Drops("delete", "close", Names))
CloseMain == mx_close_sdl("close", {}, "success")

\* gl_init.c has a load_spv of its own, which does what mx_load_spv does.
gl4_main ==
  /\ app = "gl4"
  /\ \/ Buffers
     \/ mx_create_shader_program
     \/ Check
     \/ Frame
     \/ Delete \/ CloseMain
ex1_main ==
  /\ app = "ex1"
  /\ \/ Buffers \/ mx_create_shader_program
     \/ Check \/ Frame \/ Delete \/ CloseMain
ex2_main ==
  /\ app = "ex2"
  /\ \/ Image \/ Buffers \/ Texture \/ Convert \/ Upload
     \/ mx_create_shader_program \/ mx_create_compute_program
     \/ Check \/ Frame \/ Delete \/ CloseMain

\* app/main.c
app_main ==
  /\ app = "app"
  /\ \/ StartSDL \/ Window
     \/ Gets("renderer", "frames", {"renderer"}) \/ Ends("renderer", {}, "failure")
     \/ Gets("frames", "frames", {}) \/ Ends("frames", {}, "success")

----------------------------------------------------------------------------
AppNext ==
  \/ (app_main \/ (app # "app" /\ mx_init_sdl) \/ gl4_main \/ ex1_main \/ ex2_main) /\ NoLoad
  \/ apc = "glad" /\ (GivenLoader \/ gladLoadGLLoader) /\ UNCHANGED appvars

AllGLInit == GLInit /\ AppInit
AppSpec == AllGLInit /\ [][AppNext]_<<glvars, appvars>>

----------------------------------------------------------------------------
\* A program that has ended holds nothing, but: the context a failed loader leaves, the empty
\* shader file, and a context that could not be destroyed with what is in it.
NothingKept ==
  apc = "end" =>
    /\ res \subseteq {"file", "context"} \cup Names
    /\ res \cap Names # {} => "context" \in res
    /\ "context" \in res => status = "failure" \/ app = "ex2"

\* A frame has everything it draws with, and nothing that was only needed to make it.
FrameReady ==
  apc = "frames" =>
    IF app = "app" THEN res = {"sdl", "window", "renderer"}
    ELSE /\ {"sdl", "window", "context", "vao", "vbo"} \cup Needed \subseteq res
         /\ res \cap {"img", "rgba", "vs", "fs", "cs"} = {}
         /\ app = "ex2" => {"ebo", "texture"} \subseteq res

\* No command is called without a context, or through a null pointer on a driver that has
\* what its version promises.
CallsSafe ==
  /\ res \cap Names # {} => "context" \in res
  /\ apc = "crashed" => ~Honest

\* Success is returned only by a program that drew frames, however its context's end went.
SuccessMeansFrames == status = "success" => glpc = "loaded" \/ app = "app"

\* A program draws with all it needs and keeps nothing when it ends.
AppsInv == NothingKept /\ FrameReady /\ CallsSafe /\ SuccessMeansFrames
=============================================================================
