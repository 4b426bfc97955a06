--------------------------- MODULE ColorConverter ---------------------------
(***************************************************************************)
(* ColorConverter (services/color_converter.cpp): the GL objects it makes, *)
(* the scoped bindings it makes them in, and the draws of a frame.         *)
(***************************************************************************)
EXTENDS Gl

(* The members, in the order in which the destructor releases them.        *)
Members ==
  <<"mouse_program", "program", "index_buffer", "texture_coords_buffer",
    "vertex_buffer", "vao", "output_texture", "mouse_texture",
    "input_texture", "fbo">>

Shader(shader) ==
  <<create_shader(shader), shader_source(shader), compile_shader(shader)>>

Program(program, vertex, fragment) ==
  Shader(vertex) \o Shader(fragment)
    \o <<Create(program), attach_shader(program, vertex),
         attach_shader(program, fragment), link_program(program),
         validate_program(program)>>

(* The vertex and index data, inside the vertex array's scope.             *)
VertexArray ==
  LET Attribute(buffer) ==
        Scoped("array_buffer", buffer,
          <<buffer_data("array_buffer", buffer),
            vertex_attrib_pointer("vao", buffer),
            enable_vertex_array_attrib("vao")>>)
  IN  Scoped("vertex_array", "vao",
        Attribute("vertex_buffer")
          \o Attribute("texture_coords_buffer")
          \o Scoped("element_array_buffer", "index_buffer",
               <<buffer_data("element_array_buffer", "index_buffer")>>))

OutputTexture ==
  <<Create("output_texture")>>
    \o Scoped("texture_2d", "output_texture",
         <<texture_image_2d("output_texture"),
           texture_parameter("output_texture")>>)

MouseUniforms ==
  Scoped("program", "mouse_program",
    <<uniform("mouse_program"), get_uniform_location("mouse_program")>>)

OutputFramebuffer ==
  <<Create("fbo")>>
    \o Scoped("draw_framebuffer", "fbo",
         <<blend_function, framebuffer_texture("fbo", "output_texture"),
           draw_buffers("fbo"), check_framebuffer_status("fbo")>>)

(* Everything up to the moves into the members.                            *)
InitializeLocals ==
  <<Create("vao"), Create("vertex_buffer"), Create("texture_coords_buffer"),
    Create("index_buffer")>>
    \o VertexArray
    \o OutputTexture
    \o Program("program", "vertex_shader", "fragment_shader")
    \o Program("mouse_program", "mouse_vertex_shader", "mouse_fragment_shader")
    \o MouseUniforms
    \o OutputFramebuffer

Locals == {"output_texture", "vao", "vertex_buffer", "texture_coords_buffer",
           "index_buffer", "program", "mouse_program"}

(* The twelve local owners of initialize.                                  *)
NumLocals == 12

Moves(objects) == [Skip("move") EXCEPT !.moves = objects]

(* on_init calls it once, so that initialized_ is false.  The framebuffer  *)
(* is a member before the last two textures are created.                   *)
initialize ==
  InitializeLocals
    \o <<Moves({"fbo"}), CreateMember("input_texture"),
         CreateMember("mouse_texture"), Moves(Locals), Leave(NumLocals)>>

-----------------------------------------------------------------------------

(* A draw of the quad with a texture, under its program.                   *)
Draw(texture, program, uniforms) ==
  Scoped("texture_external", texture,
    <<Bind("program", program)>>
      \o uniforms
      \o <<draw_elements("vao", "index_buffer", "fbo", texture, program),
           Leave(1)>>)

DrawAll(mouse) ==
  <<viewport, clear("fbo")>>
    \o Draw("input_texture", "program", <<>>)
    \o IF ~mouse THEN <<>>
       ELSE Draw("mouse_texture", "mouse_program",
                 <<uniform("mouse_program")>>)

(* Fault: the vertex array is unbound before its index buffer.             *)
ConvertUnbindsLate(mouse) ==
  <<[Bind("vertex_array", "vao") EXCEPT !.owns = <<>>],
    [Bind("element_array_buffer", "index_buffer") EXCEPT
       !.owns = <<Unbinds("element_array_buffer"), Unbinds("vertex_array")>>],
    Bind("draw_framebuffer", "fbo")>>
    \o DrawAll(mouse)
    \o <<Leave(3)>>

convert(mouse) ==
  Scoped("vertex_array", "vao",
    <<Bind("draw_framebuffer", "fbo"),
      Bind("element_array_buffer", "index_buffer")>>
      \o DrawAll(mouse)
      \o <<Leave(2)>>)
=============================================================================
