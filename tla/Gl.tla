--------------------------------- MODULE Gl ---------------------------------
(***************************************************************************)
(* The typed wrappers of OpenGL under gl/: objects that own a name,        *)
(* targets bound for the length of a scope, and the calls ColorConverter   *)
(* makes, each with the objects it names and the bindings it relies on.    *)
(***************************************************************************)
EXTENDS Scopes

(* SC_CHECK_GL_ERROR after a call throws.  Without the check an error      *)
(* stays behind for the next one.  Every call needs the current context.   *)
GlCall(name, sees) ==
  [Call(name, {"egl_context"}) EXCEPT !.sees = sees]
Unchecked(name, sees) == [GlCall(name, sees) EXCEPT !.ends = {"gl_error"}]
GlCallOn(name, objects) ==
  [GlCall(name, {}) EXCEPT !.needs = {"egl_context"} \cup objects]

(* opengl::create, into an owner of its own or one that exists already.    *)
Create(object) == Own(object, {"egl_context"})
CreateMember(object) == Open(object, {"egl_context"})

(* BoundTarget: binding in the constructor and unbinding (binding 0) in    *)
(* the destructor.  Both are noexcept, so a GL error ends the process.     *)
Bind(target, object) ==
  [Expect("bind", {object, "egl_context"}) EXCEPT
     !.binds = {<<target, object>>}, !.owns = <<Unbinds(target)>>]

(* bind(target, object, f).                                                *)
Scoped(target, object, body) ==
  <<Bind(target, object)>> \o body \o <<Leave(1)>>

-----------------------------------------------------------------------------
(* Buffers and vertex arrays.                                              *)

buffer_data(target, buffer) == GlCall("buffer_data", {<<target, buffer>>})

(* The attribute of the bound vertex array refers to the bound buffer.     *)
vertex_attrib_pointer(vao, buffer) ==
  GlCall("vertex_attrib_pointer", {<<"vertex_array", vao>>,
                                   <<"array_buffer", buffer>>})

enable_vertex_array_attrib(vao) ==
  GlCallOn("enable_vertex_array_attrib", {vao})

(* Everything a draw relies on: what it reads and where it writes.         *)
draw_elements(vao, elements, fbo, texture, program) ==
  GlCall("draw_elements",
         {<<"vertex_array", vao>>, <<"element_array_buffer", elements>>,
          <<"draw_framebuffer", fbo>>, <<"texture_external", texture>>,
          <<"program", program>>})

-----------------------------------------------------------------------------
(* Textures and framebuffers.                                              *)

texture_image_2d(texture) ==
  GlCall("texture_image_2d", {<<"texture_2d", texture>>})
texture_parameter(texture) ==
  GlCall("texture_parameter", {<<"texture_2d", texture>>})

framebuffer_texture(fbo, texture) ==
  [GlCallOn("framebuffer_texture", {texture}) EXCEPT
     !.sees = {<<"draw_framebuffer", fbo>>}]
draw_buffers(fbo) == GlCall("draw_buffers", {<<"draw_framebuffer", fbo>>})

(* Throws also when the framebuffer is incomplete.                         *)
check_framebuffer_status(fbo) ==
  GlCall("check_framebuffer_status", {<<"draw_framebuffer", fbo>>})

blend_function == GlCall("blend_function", {})
viewport == GlCall("viewport", {})
clear(fbo) == GlCall("clear", {<<"draw_framebuffer", fbo>>})

-----------------------------------------------------------------------------
(* Shaders and programs.                                                   *)

create_shader(shader) == Create(shader)
shader_source(shader) == GlCallOn("shader_source", {shader})
compile_shader(shader) == GlCallOn("compile_shader", {shader})

attach_shader(program, shader) == GlCallOn("attach_shader", {program, shader})

(* num_shaders_attached is never raised, so that no shader is detached;    *)
(* the program keeps what it needs of them when they are deleted.          *)
link_program(program) == GlCallOn("link_program", {program})
validate_program(program) == GlCallOn("validate_program", {program})

get_uniform_location(program) == GlCallOn("get_uniform_location", {program})
uniform(program) == GlCall("uniform", {<<"program", program>>})
=============================================================================
