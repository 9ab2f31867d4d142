------------------------------ MODULE MCWireFormat ------------------------------
(* One worker and one client, a scene (a corner of the Cornell box of       *)
(* scene.h, and the classes that scene.h does not use), one work order that *)
(* fits in the sender's buffer and one that does not.  What the program     *)
(* computes with tan, sin and cos or draws with drand48 has eight digits,   *)
(* two more than are printed.                                              *)
EXTENDS WireFormat

MCDirections == {CM, MC, WM, MW, WC}

Plain(type, color) ==
  [type |-> type,
   albedo |-> [type |-> CONSTANT_TEXTURE, color |-> color]]
Scaled(type, texture, color) ==
  [type |-> type, albedo |-> [type |-> texture, color |-> color, scale |-> 1]]
Coated(type, factor) ==
  [type |-> type, albedo |-> [type |-> CONSTANT_TEXTURE, color |-> <<1, 1, 1>>],
   factor |-> factor]
Surface(type, shape, material) ==
  [type |-> type, shape |-> shape, material |-> material]

MCCamera ==
  [vectors |-> <<<<2, 7, 8>>, <<36397023, 36397023, 1>>, <<72794047, 0, 0>>,
                 <<0, 72794047, 0>>, <<70710678, 0, 70710678>>, <<0, 1, 0>>,
                 <<0, 0, 1>>>>,
   lensRadius |-> 5]

(* scene.h, cornellBox: a turned back wall, a light, a floor, two spheres   *)
(* and a box that is turned and moved                                       *)
CornellBox ==
  LET wall  == Surface(6, <<0, 55, 10, 55, 5>>, Plain(LAMBERTIAN, <<1, 4, 1>>))
      light == Surface(5, <<21, 34, 22, 33, 5>>,
                       Plain(DIFUSE_LIGHT, <<15, 15, 15>>))
      floor == Surface(5, <<0, 55, 10, 55, 0>>,
                       Scaled(LAMBERTIAN, 4, <<7, 7, 7>>))
      glass == Surface(SPHERE, <<18, 24, 14, 7>>, Coated(DIELECTRIC, 3))
      ball  == Surface(SPHERE, <<46, 7, 7, 75>>,
                       Scaled(LAMBERTIAN, 5, <<4, 1, 7>>))
      side  == Surface(4, <<0, 16, 0, 33, 16>>, Coated(METAL, 0))
      box   == [type |-> BOX, pmin |-> <<0, 0, 0>>, pmax |-> <<16, 33, 16>>,
                ptr |-> [type |-> LIST,
                         list |-> <<side, [type |-> FLIP_NORMALS, ptr |-> side]>>]]
      moved == [type |-> TRANSLATE, offset |-> <<26, 0, 29>>,
                ptr |-> [type |-> ROTATE_Y, ptr |-> box, sinTheta |-> 25881905,
                         cosTheta |-> 96592583, hasbox |-> 1,
                         bbox |-> <<<<0, 0, 1>>, <<19664966, 33, 19664966>>>>]]
  IN  [type |-> LIST,
       list |-> <<[type |-> FLIP_NORMALS, ptr |-> wall], light, floor,
                  glass, ball, moved>>]

Others ==
  LET checker == [type |-> LAMBERTIAN,
                  albedo |-> [type |-> CHECKER_TEXTURE,
                              odd |-> [type |-> 3, color |-> <<1, 2, 3>>,
                                       scale |-> 4],
                              even |-> [type |-> CONSTANT_TEXTURE,
                                        color |-> <<9, 8, 7>>]]]
  IN  [type |-> BVH,
       left |-> Surface(TRIANGLE, <<4, 5, 5, 5, 4, 5, 5, 5, 4>>, checker),
       right |-> Surface(SPHERE, <<84163034, 2, 45449244, 2>>,
                         Plain(LAMBERTIAN, <<39999959, 4550326, 1>>)),
       box |-> <<<<0, 0, 0>>, <<84163036, 5, 5>>>>]

MCDescriptors ==
  {[nX |-> 12, nY |-> 8, RPP |-> 10, camera |-> MCCamera,
    world |-> [type |-> LIST, list |-> <<CornellBox, Others>>]]}

Request(offset, numPixels, pipeline) ==
  [startY |-> 7, startX |-> offset, endY |-> 7, endX |-> offset + numPixels,
   numPixels |-> numPixels, offset |-> offset, pipeline |-> pipeline,
   tag |-> pipeline + 10]

MCPlans ==
  {<<Request(0, 2, 0), Request(2, 0, 1)>>,
   <<Request(0, 1, 0), Request(100, 1, 1)>>}
=============================================================================
